---------------------------- MODULE Spec2Model ----------------------------
(***************************************************************************)
(* A model of the computer configurator (computer_configurator.py) and of  *)
(* the compatibility check of the tool server (mcp_server.py).             *)
(*                                                                         *)
(* Python values are tagged records: [t |-> "none"], [t |-> "str", v |->   *)
(* characters], [t |-> "int", v |-> n], [t |-> "list", v |-> sequence],     *)
(* [t |-> "dict", v |-> function from keys to values].  A string is the    *)
(* sequence of its characters, so that lower(), upper(), startswith() and  *)
(* the substring test are computed, not assumed.  The outcome of a call is *)
(* Ok(value) or Raise(exception): an exception that leaves a function is   *)
(* an outcome of its own, never a result.                                  *)
(***************************************************************************)
EXTENDS Integers, Sequences, FiniteSets, TLC

VARIABLES
    pc,         \* where the server is: "idle", inside a generate call, or "done"
    op,         \* the operation of the current (or last) call
    arg,        \* its argument
    res,        \* its outcome: Ok(value) or Raise(exception), NoOutcome before
    requests,   \* HTTP requests sent to the oracle by the current call
    fallbacks,  \* calls of get_mock_configuration made by the current call
    queries,    \* calls of query_llm_for_configuration made by the current call
    nlines,     \* lines of the event stream read so far
    content,    \* the content accumulated from the stream
    llm,        \* the outcome of query_llm_for_configuration, NoOutcome before
    failure,    \* how the oracle call of the current call failed, "none" if not
    line_read,  \* the line the loop over the event stream has just read, NoLine
                \* outside the loop
    served      \* whether a call has returned before this one: no object of the
                \* program outlives a call, so nothing else passes between calls

vars == <<pc, op, arg, res, requests, fallbacks, queries, nlines, content, llm, failure,
          line_read, served>>

-----------------------------------------------------------------------------
(* Python values *)

PyNone == [t |-> "none"]
PyStr(s) == [t |-> "str", v |-> s]
PyInt(n) == [t |-> "int", v |-> n]
PyList(l) == [t |-> "list", v |-> l]
PyDict(d) == [t |-> "dict", v |-> d]
EmptyDict == PyDict(<<>>)
EmptyStr == PyStr(<<>>)

Ok(x) == [t |-> "ok", v |-> x]
Raise(e) == [t |-> "exc", v |-> e]
IsExc(x) == x.t = "exc"
NoOutcome == [t |-> "nothing"]

\* bool(x): the truth value Python gives a value in `if x` and `not x`
Truthy(x) ==
    CASE x.t = "none" -> FALSE
      [] x.t = "str"  -> Len(x.v) > 0
      [] x.t = "int"  -> x.v # 0
      [] x.t = "list" -> Len(x.v) > 0
      [] x.t = "dict" -> DOMAIN x.v # {}

\* obj.get(key, default): only a dict has the method
Get(obj, key, default) ==
    IF obj.t = "dict"
    THEN Ok(IF key \in DOMAIN obj.v THEN obj.v[key] ELSE default)
    ELSE Raise("AttributeError")

\* d.get(key, default) where d is known to be a dict
GetD(d, key, default) == IF key \in DOMAIN d.v THEN d.v[key] ELSE default

-----------------------------------------------------------------------------
(* Strings *)

UpperLetters == <<"A", "B", "C", "D", "E", "F", "G", "H", "I", "J", "K", "L", "M",
                  "N", "O", "P", "Q", "R", "S", "T", "U", "V", "W", "X", "Y", "Z">>
LowerLetters == <<"a", "b", "c", "d", "e", "f", "g", "h", "i", "j", "k", "l", "m",
                  "n", "o", "p", "q", "r", "s", "t", "u", "v", "w", "x", "y", "z">>

LowerChar(c) ==
    IF \E i \in DOMAIN UpperLetters : UpperLetters[i] = c
    THEN LowerLetters[CHOOSE i \in DOMAIN UpperLetters : UpperLetters[i] = c]
    ELSE c

UpperChar(c) ==
    IF \E i \in DOMAIN LowerLetters : LowerLetters[i] = c
    THEN UpperLetters[CHOOSE i \in DOMAIN LowerLetters : LowerLetters[i] = c]
    ELSE c

\* str.lower() and str.upper()
lower(s) == [i \in 1..Len(s) |-> LowerChar(s[i])]
upper(s) == [i \in 1..Len(s) |-> UpperChar(s[i])]

\* str.startswith(prefix)
startswith(s, prefix) ==
    Len(prefix) <= Len(s) /\ SubSeq(s, 1, Len(prefix)) = prefix

\* str.endswith(suffix)
endswith(s, suffix) ==
    Len(suffix) <= Len(s) /\ SubSeq(s, Len(s) - Len(suffix) + 1, Len(s)) = suffix

\* `needle in hay` for two strings: the substring test
Contains(hay, needle) ==
    \E i \in 0..(Len(hay) - Len(needle)) : SubSeq(hay, i + 1, i + Len(needle)) = needle

\* `x in seq` for a list of strings
InSeq(x, seq) == \E i \in DOMAIN seq : seq[i] = x

\* `a in b` for Python values: a substring test in a string (a TypeError for a
\* non-string left operand), membership in a list, a key test in a dict, a
\* TypeError for a value that is no container
InOp(a, b) ==
    CASE b.t = "str"  -> IF a.t = "str" THEN Ok(Contains(b.v, a.v)) ELSE Raise("TypeError")
      [] b.t = "list" -> Ok(\E i \in DOMAIN b.v : b.v[i] = a)
      [] b.t = "dict" -> Ok(FALSE)
      [] OTHER        -> Raise("TypeError")

-----------------------------------------------------------------------------
(* check_compatibility of computer_configurator.py *)

compatibility_rules ==
    << [family  |-> <<"a", "m", "4">>,
        sockets |-> << <<"a", "m", "4">>, <<"b", "3", "5", "0">>, <<"b", "4", "5", "0">>, <<"x", "3", "7", "0">>, <<"x", "4", "7", "0">>, <<"x", "5", "7", "0">> >>],
       [family  |-> <<"a", "m", "5">>,
        sockets |-> << <<"a", "m", "5">>, <<"b", "6", "5", "0">>, <<"x", "6", "7", "0">> >>],
       [family  |-> <<"t", "r", "x", "4">>,
        sockets |-> << <<"t", "r", "x", "4">>, <<"w", "r", "x", "4", "0">> >>],
       [family  |-> <<"l", "g", "a", "1", "1", "5", "1">>,
        sockets |-> << <<"l", "g", "a", "1", "1", "5", "1">>, <<"h", "1", "1", "0">>, <<"b", "1", "5", "0">>, <<"z", "1", "7", "0">>, <<"h", "1", "7", "0">>, <<"q", "1", "7", "0">>, <<"q", "1", "5", "0">> >>],
       [family  |-> <<"l", "g", "a", "1", "1", "5", "5">>,
        sockets |-> << <<"l", "g", "a", "1", "1", "5", "5">>, <<"h", "6", "1">>, <<"b", "6", "5">>, <<"p", "6", "7">>, <<"z", "6", "8">>, <<"h", "6", "7">> >>],
       [family  |-> <<"l", "g", "a", "1", "1", "5", "0">>,
        sockets |-> << <<"l", "g", "a", "1", "1", "5", "0">>, <<"h", "8", "1">>, <<"b", "8", "5">>, <<"z", "8", "7">>, <<"h", "8", "7">>, <<"q", "8", "7">>, <<"q", "8", "5">> >>],
       [family  |-> <<"l", "g", "a", "1", "2", "0", "0">>,
        sockets |-> << <<"l", "g", "a", "1", "2", "0", "0">>, <<"h", "4", "1", "0">>, <<"b", "4", "6", "0">>, <<"z", "4", "9", "0">>, <<"h", "4", "7", "0">> >>],
       [family  |-> <<"l", "g", "a", "1", "7", "0", "0">>,
        sockets |-> << <<"l", "g", "a", "1", "7", "0", "0">>, <<"b", "5", "6", "0">>, <<"z", "5", "9", "0">>, <<"h", "5", "1", "0">>, <<"h", "5", "7", "0">>, <<"z", "6", "9", "0">>, <<"b", "6", "6", "0">>,
                       <<"h", "6", "1", "0">>, <<"z", "7", "9", "0">> >>],
       [family  |-> <<"l", "g", "a", "2", "0", "6", "6">>,
        sockets |-> << <<"l", "g", "a", "2", "0", "6", "6">>, <<"x", "2", "9", "9">> >>] >>

\* a variant that takes the CPU socket only as a whole entry of a family's
\* list, not by the family key it starts with
is_compatible_whole(cpu_socket_lower, motherboard_socket_lower) ==
    \E i \in DOMAIN compatibility_rules :
        /\ InSeq(cpu_socket_lower, compatibility_rules[i].sockets)
        /\ InSeq(motherboard_socket_lower, compatibility_rules[i].sockets)

\* the loop over compatibility_rules.items(): some family that the CPU socket
\* starts with, or whose list holds it, lists the motherboard socket
\* a variant that matches a family by its key alone
is_compatible_by_key(cpu_socket_lower, motherboard_socket_lower) ==
    \E i \in DOMAIN compatibility_rules :
        /\ startswith(cpu_socket_lower, compatibility_rules[i].family)
        /\ InSeq(motherboard_socket_lower, compatibility_rules[i].sockets)

is_compatible(cpu_socket_lower, motherboard_socket_lower) ==
    \E i \in DOMAIN compatibility_rules :
        /\ \/ startswith(cpu_socket_lower, compatibility_rules[i].family)
           \/ InSeq(cpu_socket_lower, compatibility_rules[i].sockets)
        /\ InSeq(motherboard_socket_lower, compatibility_rules[i].sockets)

\* a variant that runs the rule as soon as one of the two sockets is given
socket_rule_either(cpu_socket, motherboard_socket) ==
    IF ~(Truthy(cpu_socket) \/ Truthy(motherboard_socket)) THEN Ok(<<>>)
    ELSE IF cpu_socket.t # "str" \/ motherboard_socket.t # "str" THEN Raise("AttributeError")
    ELSE IF /\ ~is_compatible(lower(cpu_socket.v), lower(motherboard_socket.v))
            /\ lower(cpu_socket.v) # lower(motherboard_socket.v)
         THEN Ok(<< [kind |-> "socket", cpu_socket |-> cpu_socket.v,
                     motherboard_socket |-> motherboard_socket.v] >>)
         ELSE Ok(<<>>)

\* the socket rule: the issues it appends, or the exception it raises
socket_rule(cpu_socket, motherboard_socket) ==
    IF ~(Truthy(cpu_socket) /\ Truthy(motherboard_socket)) THEN Ok(<<>>)
    ELSE IF cpu_socket.t # "str" \/ motherboard_socket.t # "str" THEN Raise("AttributeError")
    ELSE IF /\ ~is_compatible(lower(cpu_socket.v), lower(motherboard_socket.v))
            /\ lower(cpu_socket.v) # lower(motherboard_socket.v)
         THEN Ok(<< [kind |-> "socket", cpu_socket |-> cpu_socket.v,
                     motherboard_socket |-> motherboard_socket.v] >>)
         ELSE Ok(<<>>)

\* one side of the brand cross-check: `word in cpu_name and other in
\* motherboard_socket.lower()`; the right operand is evaluated only when the
\* left one is true
brand_pair(cpu_name, motherboard_socket, word, other) ==
    IF ~Contains(cpu_name, word) THEN Ok(FALSE)
    ELSE IF motherboard_socket.t # "str" THEN Raise("AttributeError")
    ELSE Ok(Contains(lower(motherboard_socket.v), other))

\* the brand cross-check; cpu_name is already lower-cased
brand_rule(cpu_name, motherboard_socket) ==
    LET first == brand_pair(cpu_name, motherboard_socket, <<"i", "n", "t", "e", "l">>, <<"a", "m", "d">>)
        second == brand_pair(cpu_name, motherboard_socket, <<"a", "m", "d">>, <<"i", "n", "t", "e", "l">>)
    IN  IF IsExc(first) THEN first
        ELSE IF first.v THEN Ok(<< [kind |-> "brand"] >>)
        ELSE IF IsExc(second) THEN second
        ELSE IF second.v THEN Ok(<< [kind |-> "brand"] >>)
        ELSE Ok(<<>>)

\* the memory type read from the memory's name when `type` is not given
infer_memory_type(memory, memory_type) ==
    IF Truthy(memory_type) THEN Ok(memory_type)
    ELSE LET memory_name == GetD(memory, "name", EmptyStr)
         IN  IF memory_name.t # "str" THEN Raise("AttributeError")
             ELSE IF Contains(lower(memory_name.v), <<"d", "d", "r", "5">>) THEN Ok(PyStr(<<"D", "D", "R", "5">>))
             ELSE IF Contains(lower(memory_name.v), <<"d", "d", "r", "4">>) THEN Ok(PyStr(<<"D", "D", "R", "4">>))
             ELSE IF Contains(lower(memory_name.v), <<"d", "d", "r", "3">>) THEN Ok(PyStr(<<"D", "D", "R", "3">>))
             ELSE Ok(memory_type)

\* the memory support read from the motherboard's name when `memory_support`
\* is not given
infer_memory_support(motherboard, motherboard_memory_support) ==
    IF Truthy(motherboard_memory_support) THEN Ok(motherboard_memory_support)
    ELSE LET motherboard_name == GetD(motherboard, "name", EmptyStr)
         IN  IF motherboard_name.t # "str" THEN Raise("AttributeError")
             ELSE LET n == lower(motherboard_name.v)
                  IN  IF Contains(n, <<"b", "6", "5", "0">>) \/ Contains(n, <<"x", "6", "7", "0">>) \/ Contains(n, <<"a", "m", "5">>)
                      THEN Ok(PyStr(<<"D", "D", "R", "5">>))
                      ELSE IF \/ Contains(n, <<"b", "4", "5", "0">>) \/ Contains(n, <<"x", "4", "7", "0">>)
                              \/ Contains(n, <<"b", "5", "5", "0">>) \/ Contains(n, <<"x", "5", "7", "0">>)
                      THEN Ok(PyStr(<<"D", "D", "R", "4">>))
                      ELSE IF Contains(n, <<"z", "8", "7">>) \/ Contains(n, <<"h", "8", "1">>) \/ Contains(n, <<"b", "8", "5">>)
                      THEN Ok(PyStr(<<"D", "D", "R", "3">>))
                      ELSE Ok(motherboard_memory_support)

\* any(memory_type.upper() in support.upper() for support in supports), the
\* entries read in order up to the first match
RECURSIVE any_support(_, _)
any_support(memory_type, supports) ==
    IF supports = <<>> THEN Ok(FALSE)
    ELSE IF memory_type.t # "str" \/ Head(supports).t # "str" THEN Raise("AttributeError")
    ELSE IF Contains(upper(Head(supports).v), upper(memory_type.v)) THEN Ok(TRUE)
    ELSE any_support(memory_type, Tail(supports))

\* the memory check on the resolved type and support
memory_check(memory_type, motherboard_memory_support) ==
    IF ~(Truthy(memory_type) /\ Truthy(motherboard_memory_support)) THEN Ok(<<>>)
    ELSE IF motherboard_memory_support.t = "str"
    THEN IF memory_type.t # "str" THEN Raise("AttributeError")
         ELSE IF ~Contains(upper(motherboard_memory_support.v), upper(memory_type.v))
         THEN Ok(<< [kind |-> "memory", support |-> motherboard_memory_support,
                     memory_type |-> memory_type] >>)
         ELSE Ok(<<>>)
    ELSE IF motherboard_memory_support.t = "list"
    THEN LET found == any_support(memory_type, motherboard_memory_support.v)
         IN  IF IsExc(found) THEN found
             ELSE IF ~found.v THEN Ok(<< [kind |-> "memory_list", memory_type |-> memory_type] >>)
             ELSE Ok(<<>>)
    ELSE Ok(<<>>)

\* the memory rule: type and support read, inferred when not given, compared
memory_rule(memory, motherboard) ==
    LET memory_type == infer_memory_type(memory, GetD(memory, "type", EmptyStr))
        support == infer_memory_support(motherboard,
                                        GetD(motherboard, "memory_support", EmptyStr))
    IN  IF IsExc(memory_type) THEN memory_type
        ELSE IF IsExc(support) THEN support
        ELSE memory_check(memory_type.v, support.v)

\* `total_power_consumption += component["tdp"]` when component.get("tdp") is
\* true: the sum, or the TypeError of adding a value that is no number
add_tdp(total, component) ==
    LET tdp == GetD(component, "tdp", PyNone)
    IN  IF ~Truthy(tdp) THEN Ok(total)
        ELSE IF tdp.t = "int" THEN Ok(total + tdp.v)
        ELSE Raise("TypeError")

\* a variant that warns from 80% of the rating on, not only above it
power_rule_inclusive(cpu, video_card, power_supply) ==
    LET with_cpu == add_tdp(0, cpu)
        total == add_tdp(with_cpu.v, video_card)
        psu_power == GetD(power_supply, "power", PyInt(0))
    IN  IF IsExc(with_cpu) THEN with_cpu
        ELSE IF video_card.t # "dict" THEN Raise("AttributeError")
        ELSE IF IsExc(total) THEN total
        ELSE IF power_supply.t # "dict" THEN Raise("AttributeError")
        ELSE IF psu_power.t # "int" THEN Raise("TypeError")
        ELSE IF psu_power.v > 0 /\ 10 * total.v >= 8 * psu_power.v
        THEN Ok(<< [kind |-> "power", total |-> total.v,
                    recommended |-> (10 * total.v) \div 8] >>)
        ELSE Ok(<<>>)

\* a variant that warns only while the draw is within the rating
power_rule_window(cpu, video_card, power_supply) ==
    LET with_cpu == add_tdp(0, cpu)
        total == add_tdp(with_cpu.v, video_card)
        psu_power == GetD(power_supply, "power", PyInt(0))
    IN  IF IsExc(with_cpu) THEN with_cpu
        ELSE IF video_card.t # "dict" THEN Raise("AttributeError")
        ELSE IF IsExc(total) THEN total
        ELSE IF power_supply.t # "dict" THEN Raise("AttributeError")
        ELSE IF psu_power.t # "int" THEN Raise("TypeError")
        ELSE IF psu_power.v > 0 /\ 10 * total.v > 8 * psu_power.v
                /\ total.v <= psu_power.v
        THEN Ok(<< [kind |-> "power", total |-> total.v,
                    recommended |-> (10 * total.v) \div 8] >>)
        ELSE Ok(<<>>)

\* the power rule: the warnings it appends.  total > psu_power * 0.8 and
\* int(total / 0.8) are computed in tenths: 10 * total > 8 * psu_power and
\* (10 * total) \div 8, which is what the floating-point code yields on the
\* wattages drawn here
power_rule(cpu, video_card, power_supply) ==
    LET with_cpu == add_tdp(0, cpu)
        total == add_tdp(with_cpu.v, video_card)
        psu_power == GetD(power_supply, "power", PyInt(0))
    IN  IF IsExc(with_cpu) THEN with_cpu
        ELSE IF video_card.t # "dict" THEN Raise("AttributeError")
        ELSE IF IsExc(total) THEN total
        ELSE IF power_supply.t # "dict" THEN Raise("AttributeError")
        ELSE IF psu_power.t # "int" THEN Raise("TypeError")
        ELSE IF psu_power.v > 0 /\ 10 * total.v > 8 * psu_power.v
        THEN Ok(<< [kind |-> "power", total |-> total.v,
                    recommended |-> (10 * total.v) \div 8] >>)
        ELSE Ok(<<>>)

form_factor_hierarchy ==
    << [label |-> <<"M", "i", "n", "i", " ", "I", "T", "X">>, rank |-> 1],
       [label |-> <<"M", "i", "c", "r", "o", " ", "A", "T", "X">>, rank |-> 2],
       [label |-> <<"A", "T", "X">>, rank |-> 3],
       [label |-> <<"E", "A", "T", "X">>, rank |-> 4],
       [label |-> <<"X", "L", " ", "A", "T", "X">>, rank |-> 5] >>

\* `label in form_factor_hierarchy`: a key test, exact in letter case; a list or
\* a dict is unhashable
in_hierarchy(label) ==
    IF label.t \in {"list", "dict"} THEN Raise("TypeError")
    ELSE Ok(/\ label.t = "str"
            /\ \E i \in DOMAIN form_factor_hierarchy : form_factor_hierarchy[i].label = label.v)

rank_of(label) ==
    form_factor_hierarchy[CHOOSE i \in DOMAIN form_factor_hierarchy :
                              form_factor_hierarchy[i].label = label.v].rank

\* the case size rule
form_factor_rule(case, motherboard) ==
    LET case_form_factor == GetD(case, "form_factor", EmptyStr)
        motherboard_form_factor == GetD(motherboard, "form_factor", EmptyStr)
        case_known == in_hierarchy(case_form_factor)
        board_known == in_hierarchy(motherboard_form_factor)
    IN  IF case.t # "dict" THEN Raise("AttributeError")
        ELSE IF IsExc(case_known) THEN case_known
        ELSE IF ~case_known.v THEN Ok(<<>>)
        ELSE IF IsExc(board_known) THEN board_known
        ELSE IF ~board_known.v THEN Ok(<<>>)
        ELSE IF rank_of(case_form_factor) < rank_of(motherboard_form_factor)
        THEN Ok(<< [kind |-> "form_factor", case_form_factor |-> case_form_factor.v,
                    motherboard_form_factor |-> motherboard_form_factor.v] >>)
        ELSE Ok(<<>>)

\* the graphics card length rule; `and` stops at the first false operand
gpu_length_rule(case, video_card) ==
    LET case_max_gpu_length == GetD(case, "max_gpu_length", PyInt(0))
        gpu_length == GetD(video_card, "length", PyInt(0))
    IN  IF case_max_gpu_length.t # "int" THEN Raise("TypeError")
        ELSE IF ~(case_max_gpu_length.v > 0) THEN Ok(<<>>)
        ELSE IF gpu_length.t # "int" THEN Raise("TypeError")
        ELSE IF gpu_length.v > 0 /\ gpu_length.v > case_max_gpu_length.v
        THEN Ok(<< [kind |-> "gpu_length", gpu_length |-> gpu_length.v,
                    case_max_gpu_length |-> case_max_gpu_length.v] >>)
        ELSE Ok(<<>>)

\* the components read from the configuration, each {} when its key is absent
cc_components(configuration) ==
    [cpu          |-> GetD(configuration, "cpu", EmptyDict),
     motherboard  |-> GetD(configuration, "motherboard", EmptyDict),
     memory       |-> GetD(configuration, "memory", EmptyDict),
     video_card   |-> GetD(configuration, "video-card", EmptyDict),
     power_supply |-> GetD(configuration, "power-supply", EmptyDict),
     case         |-> GetD(configuration, "case", EmptyDict)]

\* cpu.get("name", "").lower()
cc_cpu_name(cpu) ==
    LET name == Get(cpu, "name", EmptyStr)
    IN  IF IsExc(name) THEN name
        ELSE IF name.v.t # "str" THEN Raise("AttributeError")
        ELSE Ok(lower(name.v.v))

\* the body of the try block: the issues and warnings, or the exception raised
check_compatibility_try(configuration) ==
    IF configuration.t # "dict" THEN Raise("AttributeError")
    ELSE
    LET c == cc_components(configuration)
        cpu_name == cc_cpu_name(c.cpu)
        cpu_socket == GetD(c.cpu, "socket", EmptyStr)
        motherboard_socket == GetD(c.motherboard, "socket", EmptyStr)
        sockets == socket_rule(cpu_socket, motherboard_socket)
        brands == brand_rule(cpu_name.v, motherboard_socket)
        memories == memory_rule(c.memory, c.motherboard)
        powers == power_rule(c.cpu, c.video_card, c.power_supply)
        sizes == form_factor_rule(c.case, c.motherboard)
        lengths == gpu_length_rule(c.case, c.video_card)
    IN  IF IsExc(cpu_name) THEN cpu_name
        ELSE IF c.motherboard.t # "dict" THEN Raise("AttributeError")
        ELSE IF IsExc(sockets) THEN sockets
        ELSE IF IsExc(brands) THEN brands
        ELSE IF c.memory.t # "dict" THEN Raise("AttributeError")
        ELSE IF IsExc(memories) THEN memories
        ELSE IF IsExc(powers) THEN powers
        ELSE IF IsExc(sizes) THEN sizes
        ELSE IF IsExc(lengths) THEN lengths
        ELSE Ok([issues   |-> sockets.v \o brands.v \o memories.v \o sizes.v \o lengths.v,
                 warnings |-> powers.v])

\* a variant: a warning makes the configuration incompatible as well
cc_result_strict(issues, warnings) ==
    [compatible |-> Len(issues) = 0 /\ Len(warnings) = 0, issues |-> issues,
     warnings |-> warnings]

\* the result object built from the issues and warnings
\* a variant that stops at the first issue: one issue at most, and no warning
\* beside it
cc_result_first(issues, warnings) ==
    [compatible |-> Len(issues) = 0,
     issues     |-> IF issues = <<>> THEN <<>> ELSE << Head(issues) >>,
     warnings   |-> IF issues = <<>> THEN warnings ELSE <<>>]

cc_result(issues, warnings) ==
    [compatible |-> Len(issues) = 0, issues |-> issues, warnings |-> warnings]

\* the result object of the except clause
error_result(e) ==
    [compatible |-> FALSE, issues |-> << [kind |-> "error", exception |-> e] >>,
     warnings |-> <<>>]

\* a variant without the except clause: the exception leaves the function
check_compatibility_unguarded(configuration) ==
    LET body == check_compatibility_try(configuration)
    IN  IF IsExc(body) THEN body
        ELSE Ok(cc_result(body.v.issues, body.v.warnings))

\* check_compatibility(configuration)
check_compatibility(configuration) ==
    LET body == check_compatibility_try(configuration)
    IN  IF IsExc(body) THEN Ok(error_result(body.v))
        ELSE Ok(cc_result(body.v.issues, body.v.warnings))

-----------------------------------------------------------------------------
(* _check_compatibility_internal of mcp_server.py *)

\* The JSON texts among the strings drawn as inputs, each with the value
\* json.loads gives for it; every other string drawn is no JSON text.
json_documents ==
    << [text |-> <<"{", "}">>, value |-> EmptyDict],
       [text |-> <<"[", "]">>, value |-> PyList(<<>>)],
       [text |-> <<"n", "u", "l", "l">>, value |-> PyNone],
       [text |-> <<"7">>, value |-> PyInt(7)],
       [text |-> <<"{", "\"", "c", "o", "n", "f", "i", "g", "u", "r", "a", "t", "i", "o", "n", "\"", ":", " ", "{", "}", "}">>, value |-> PyDict([configuration |-> EmptyDict])],
       [text |-> <<"{", "\"", "c", "o", "n", "f", "i", "g", "u", "r", "a", "t", "i", "o", "n", "\"", ":", " ", "7", "}">>, value |-> PyDict([configuration |-> PyInt(7)])],
       [text |-> <<"{", "\"", "c", "p", "u", "\"", ":", " ", "\"", "I", "n", "t", "e", "l", " ", "i", "5", "\"", ",", " ", "\"", "m", "o", "t", "h", "e", "r", "b", "o", "a", "r", "d", "\"", ":", " ", "{", "\"", "s", "o", "c", "k", "e", "t", "\"", ":", " ", "\"", "A", "M", "D", " ", "A", "M", "4", "\"", "}", "}">>,
        value |-> PyDict([cpu |-> PyStr(<<"I", "n", "t", "e", "l", " ", "i", "5">>),
                          motherboard |-> PyDict([socket |-> PyStr(<<"A", "M", "D", " ", "A", "M", "4">>)])])] >>

\* json.loads(text): the value, or JSONDecodeError
json_loads(text) ==
    LET document(found) ==
            IF found = {} THEN Raise("JSONDecodeError")
            ELSE Ok(json_documents[CHOOSE i \in found : TRUE].value)
    IN  document({ i \in DOMAIN json_documents : json_documents[i].text = text })

Digits == <<"0", "1", "2", "3", "4", "5", "6", "7", "8", "9">>
IsDigit(c) == \E i \in DOMAIN Digits : Digits[i] = c
DigitValue(c) == (CHOOSE i \in DOMAIN Digits : Digits[i] = c) - 1

RECURSIVE digits_value(_)
digits_value(s) ==
    IF s = <<>> THEN 0
    ELSE 10 * digits_value(SubSeq(s, 1, Len(s) - 1)) + DigitValue(s[Len(s)])

RECURSIVE strip(_)
\* str.strip() for the blank character
strip(s) ==
    IF s # <<>> /\ Head(s) = " " THEN strip(Tail(s))
    ELSE IF s # <<>> /\ s[Len(s)] = " " THEN strip(SubSeq(s, 1, Len(s) - 1))
    ELSE s

\* int(text): blanks around, an optional sign, then digits only; ValueError
\* otherwise
int_of(text) ==
    LET body == strip(text)
        signed == body # <<>> /\ Head(body) \in {"-", "+"}
        digits == IF signed THEN Tail(body) ELSE body
    IN  IF digits # <<>> /\ \A i \in DOMAIN digits : IsDigit(digits[i])
        THEN Ok(IF signed /\ Head(body) = "-" THEN 0 - digits_value(digits)
                ELSE digits_value(digits))
        ELSE Raise("ValueError")

\* `if isinstance(x, str): try: x = int(x) except ValueError: x = default`
to_number(x, default) ==
    IF x.t # "str" THEN x
    ELSE IF IsExc(int_of(x.v)) THEN PyInt(default)
    ELSE PyInt(int_of(x.v).v)

\* A result the function returns before it reads any component
Early(kind) == [t |-> "early", v |-> kind]

\* config_data: the configuration itself, the value under its "configuration"
\* key, or the same of the JSON text it is given as
sc_config_data(configuration) ==
    LET loaded(parsed) ==
            IF IsExc(parsed) THEN Early("unparsable")
            ELSE IF parsed.v.t = "dict" /\ "configuration" \in DOMAIN parsed.v.v
            THEN Ok(parsed.v.v["configuration"])
            ELSE parsed
    IN  IF configuration.t = "dict" /\ "configuration" \in DOMAIN configuration.v
        THEN Ok(configuration.v["configuration"])
        ELSE IF configuration.t = "str" THEN loaded(json_loads(configuration.v))
        ELSE IF configuration.t = "none" THEN Early("empty")
        ELSE Ok(configuration)

\* `if isinstance(component, str): component = {"name": component}`
sc_wrap(component) ==
    IF component.t = "str" THEN PyDict([name |-> component]) ELSE component

\* `component.get(key, default) if isinstance(component, dict) else default`
sc_get(component, key, default) ==
    IF component.t = "dict" THEN GetD(component, key, default) ELSE default

\* `"Intel" in cpu_name and "AMD" in motherboard_socket`, exact in letter case
sc_brand_pair(cpu_name, motherboard_socket, word, other) ==
    LET left == InOp(PyStr(word), cpu_name)
    IN  IF IsExc(left) THEN left
        ELSE IF ~left.v THEN Ok(FALSE)
        ELSE InOp(PyStr(other), motherboard_socket)

\* the simplified brand rule of the server
sc_brand_rule(cpu_name, motherboard_socket) ==
    LET first == sc_brand_pair(cpu_name, motherboard_socket, <<"I", "n", "t", "e", "l">>, <<"A", "M", "D">>)
        second == sc_brand_pair(cpu_name, motherboard_socket, <<"A", "M", "D">>, <<"I", "n", "t", "e", "l">>)
    IN  IF IsExc(first) THEN first
        ELSE IF first.v THEN Ok(<< [kind |-> "brand", cpu |-> "Intel"] >>)
        ELSE IF IsExc(second) THEN second
        ELSE IF second.v THEN Ok(<< [kind |-> "brand", cpu |-> "AMD"] >>)
        ELSE Ok(<<>>)

\* `if memory_type and support: if memory_type not in support`
sc_memory_rule(memory_type, motherboard_memory_support) ==
    IF ~(Truthy(memory_type) /\ Truthy(motherboard_memory_support)) THEN Ok(<<>>)
    ELSE LET found == InOp(memory_type, motherboard_memory_support)
         IN  IF IsExc(found) THEN found
             ELSE IF ~found.v THEN Ok(<< [kind |-> "memory_list", memory_type |-> memory_type] >>)
             ELSE Ok(<<>>)

\* the capacity rule: two modules of the given capacity against max_memory
\* a variant that compares the capacity of one module with max_memory
sc_capacity_rule_single(memory_capacity, motherboard_max_memory) ==
    IF memory_capacity.t # "int" \/ motherboard_max_memory.t # "int" THEN Raise("TypeError")
    ELSE IF memory_capacity.v > motherboard_max_memory.v
    THEN Ok(<< [kind |-> "capacity", total |-> memory_capacity.v,
                max_memory |-> motherboard_max_memory.v] >>)
    ELSE Ok(<<>>)

sc_capacity_rule(memory_capacity, motherboard_max_memory) ==
    IF memory_capacity.t # "int" \/ motherboard_max_memory.t # "int" THEN Raise("TypeError")
    ELSE IF memory_capacity.v * 2 > motherboard_max_memory.v
    THEN Ok(<< [kind |-> "capacity", total |-> memory_capacity.v * 2,
                max_memory |-> motherboard_max_memory.v] >>)
    ELSE Ok(<<>>)

\* the frequency rule: a warning
sc_frequency_rule(memory_frequency, motherboard_max_frequency) ==
    IF memory_frequency.t # "int" \/ motherboard_max_frequency.t # "int" THEN Raise("TypeError")
    ELSE IF memory_frequency.v > motherboard_max_frequency.v
    THEN Ok(<< [kind |-> "frequency", frequency |-> memory_frequency.v,
                max_frequency |-> motherboard_max_frequency.v] >>)
    ELSE Ok(<<>>)

\* the rules applied to a configuration known to be a dict
sc_rules(config_data) ==
    LET rules(brands, memories, capacities, frequencies) ==
            IF IsExc(brands) THEN brands
            ELSE IF IsExc(memories) THEN memories
            ELSE IF IsExc(capacities) THEN capacities
            ELSE IF IsExc(frequencies) THEN frequencies
            ELSE Ok([issues   |-> brands.v \o memories.v \o capacities.v,
                     warnings |-> frequencies.v])
        components(cpu, motherboard, memory) ==
            rules(sc_brand_rule(sc_get(cpu, "name", EmptyStr),
                                sc_get(motherboard, "socket", EmptyStr)),
                  sc_memory_rule(sc_get(memory, "type", EmptyStr),
                                 sc_get(motherboard, "memory_support", EmptyStr)),
                  sc_capacity_rule(
                      to_number(sc_get(memory, "capacity", PyInt(8)), 8),
                      to_number(sc_get(motherboard, "max_memory", PyInt(128)), 128)),
                  sc_frequency_rule(
                      to_number(sc_get(memory, "frequency", PyInt(3200)), 3200),
                      to_number(sc_get(motherboard, "max_memory_frequency", PyInt(4800)),
                                4800)))
    IN  components(sc_wrap(GetD(config_data, "cpu", EmptyDict)),
                   sc_wrap(GetD(config_data, "motherboard", EmptyDict)),
                   sc_wrap(GetD(config_data, "memory", EmptyDict)))

\* the result object of an early return
early_result(kind) ==
    [compatible |-> FALSE, issues |-> << [kind |-> kind] >>, warnings |-> <<>>]

\* _check_compatibility_internal(configuration)
check_compatibility_internal(configuration) ==
    LET result(body) ==
            IF IsExc(body) THEN Ok(error_result(body.v))
            ELSE Ok(cc_result(body.v.issues, body.v.warnings))
        check(config_data) ==
            IF config_data.t = "early" THEN Ok(early_result(config_data.v))
            ELSE IF config_data.v.t # "dict" THEN Ok(early_result("not_a_dict"))
            ELSE result(sc_rules(config_data.v))
    IN  check(sc_config_data(configuration))

-----------------------------------------------------------------------------
(* get_mock_configuration and generate_taobao_link *)

PyFloat(n) == [t |-> "float", v |-> n]

\* one component of a built-in template; the reason is a fixed text, kept as
\* one piece
Component(name, price, reason) ==
    PyDict([name |-> PyStr(name), price |-> PyInt(price), reason |-> PyStr(<<reason>>)])

entry_template ==
    PyDict([cpu         |-> Component(<<"A", "M", "D", " ", "R", "y", "z", "e", "n", " ", "5", " ", "3", "5", "0", "0", "X">>, 800, "entry cpu"),
            motherboard |-> Component(<<"A", "S", "R", "o", "c", "k", " ", "8", "8", "0", "G", "M", "-", "L", "E", " ", "F", "X">>, 400, "entry motherboard"),
            memory      |-> Component(<<"C", "r", "u", "c", "i", "a", "l", " ", "C", "P", "2", "K", "6", "4", "G", "5", "6", "C", "4", "6", "U", "5", " ", "1", "2", "8", " ", "G", "B">>, 300, "entry memory"),
            video_card  |-> Component(<<"P", "N", "Y", " ", "V", "C", "Q", "P", "6", "0", "0", "-", "P", "B">>, 1200, "entry video card")])

mid_template ==
    PyDict([cpu         |-> Component(<<"A", "M", "D", " ", "R", "y", "z", "e", "n", " ", "5", " ", "7", "6", "0", "0", "X", "3", "D">>, 1800, "mid cpu"),
            motherboard |-> Component(<<"M", "S", "I", " ", "Z", "9", "7", "-", "G", "4", "5", " ", "G", "a", "m", "i", "n", "g">>, 800, "mid motherboard"),
            memory      |-> Component(<<"G", ".", "S", "k", "i", "l", "l", " ", "R", "i", "p", "j", "a", "w", "s", " ", "S", "5", " ", "3", "2", " ", "G", "B">>, 600, "mid memory"),
            video_card  |-> Component(<<"G", "i", "g", "a", "b", "y", "t", "e", " ", "V", "i", "s", "i", "o", "n", " ", "O", "C">>, 3500, "mid video card")])

\* a variant whose memory is named as DDR4, on the B650 motherboard
high_template_ddr4 ==
    PyDict([cpu         |-> Component(<<"A", "M", "D", " ", "R", "y", "z", "e", "n", " ", "5", " ", "3", "5", "0", "0", "X">>, 900, "high cpu"),
            motherboard |-> Component(<<"B", "i", "o", "s", "t", "a", "r", " ", "B", "6", "5", "0", "M", "T", "-", "E", " ", "P", "R", "O">>, 700, "high motherboard"),
            memory      |-> Component(<<"C", "r", "u", "c", "i", "a", "l", " ", "D", "D", "R", "4", " ", "1", "2", "8", " ", "G", "B">>, 400, "high memory"),
            video_card  |-> Component(<<"M", "S", "I", " ", "G", "A", "M", "I", "N", "G", " ", "T", "R", "I", "O">>, 5500, "high video card")])

high_template ==
    PyDict([cpu         |-> Component(<<"A", "M", "D", " ", "R", "y", "z", "e", "n", " ", "5", " ", "3", "5", "0", "0", "X">>, 900, "high cpu"),
            motherboard |-> Component(<<"B", "i", "o", "s", "t", "a", "r", " ", "B", "6", "5", "0", "M", "T", "-", "E", " ", "P", "R", "O">>, 700, "high motherboard"),
            memory      |-> Component(<<"C", "r", "u", "c", "i", "a", "l", " ", "C", "P", "2", "K", "6", "4", "G", "5", "6", "C", "4", "6", "U", "5", " ", "1", "2", "8", " ", "G", "B">>, 400, "high memory"),
            video_card  |-> Component(<<"M", "S", "I", " ", "G", "A", "M", "I", "N", "G", " ", "T", "R", "I", "O">>, 5500, "high video card")])

RECURSIVE SumOver(_, _)
\* the sum of f over a finite set of keys
SumOver(f, keys) ==
    IF keys = {} THEN 0
    ELSE LET k == CHOOSE x \in keys : TRUE
         IN  f[k] + SumOver(f, keys \ {k})

\* sum(item["price"] for item in configuration.values())
price_sum(configuration) ==
    SumOver([k \in DOMAIN configuration.v |-> configuration.v[k].v["price"].v],
            DOMAIN configuration.v)

\* a variant whose brackets take their upper limit in: 4000 is entry, 7000 is mid
mock_choice_inclusive(budget) ==
    IF budget <= 4000 THEN [configuration |-> entry_template, tier |-> "entry"]
    ELSE IF budget <= 7000 THEN [configuration |-> mid_template, tier |-> "mid"]
    ELSE [configuration |-> high_template, tier |-> "high"]

\* the template and the word for its tier that the budget selects
mock_choice(budget) ==
    IF budget < 4000 THEN [configuration |-> entry_template, tier |-> "entry"]
    ELSE IF budget < 7000 THEN [configuration |-> mid_template, tier |-> "mid"]
    ELSE [configuration |-> high_template, tier |-> "high"]

\* get_mock_configuration(budget, usage, config_level); the recommendation is the
\* tier's sentence with the usage and the total price in it
get_mock_configuration(budget, usage, config_level) ==
    LET choice == mock_choice(budget)
        total_price == price_sum(choice.configuration)
    IN  PyDict([configuration  |-> choice.configuration,
                total_price    |-> PyInt(total_price),
                recommendation |-> PyStr(<<choice.tier, " tier configuration for ">> \o usage.v
                                         \o <<", total price ", ToString(total_price)>>)])

\* str.replace(old, " ") for a one-character old
replace_char(s, old) == [i \in 1..Len(s) |-> IF s[i] = old THEN " " ELSE s[i]]

\* the words generate_taobao_link appends for a hardware type
link_suffix(hardware_type) ==
    CASE hardware_type = "cpu"         -> <<" CPU processor">>
      [] hardware_type = "motherboard" -> <<" motherboard">>
      [] hardware_type = "memory"      -> <<" memory module">>
      [] hardware_type = "video-card"  -> <<" graphics card">>
      [] OTHER                         -> <<>>

\* generate_taobao_link(hardware_name, hardware_type)
generate_taobao_link(hardware_name, hardware_type) ==
    IF hardware_name.t # "str" THEN Raise("AttributeError")
    ELSE Ok(PyStr(<<"https://s.taobao.com/search?q=">>
                  \o replace_char(replace_char(hardware_name.v, "/"), "-")
                  \o link_suffix(hardware_type)))

-----------------------------------------------------------------------------
(* query_llm_for_configuration: the oracle's event stream and its content *)

\* The texts the oracle may send as content.  A text is a sequence of pieces:
\* a blank, a Markdown code fence (opening with json, or closing), or a piece
\* of a document; oracle_documents lists the
\* sequences that are JSON texts, each with the value json.loads gives for it.
Blank == " "
FenceJson == "[fence json]"
Fence == "[fence]"

GoodDraft ==
    PyDict([configuration  |-> PyDict([cpu |-> PyDict([name |-> PyStr(<<"I", "n", "t", "e", "l", " ", "i", "5", "-", "1", "2", "4", "0", "0">>),
                                                       price |-> PyInt(1000)]),
                                       case |-> PyDict([name |-> PyStr(<<"N", "Z", "X", "T", " ", "H", "5", "/", "F", "l", "o", "w">>)]),
                                       storage |-> PyDict([price |-> PyInt(300)]),
                                       note |-> PyStr(<<"n", "o", " ", "l", "i", "n", "k">>)]
                                      @@ ("video-card" :>
                                            PyDict([name |-> PyStr(<<"R", "T", "X", " ", "3", "0", "6", "0">>)]))),
            total_price    |-> PyInt(1500),
            recommendation |-> PyStr(<<"draft">>)])

oracle_documents ==
    << [text |-> <<"good">>, value |-> GoodDraft],
       [text |-> <<"good 1/2", "good 2/2">>, value |-> GoodDraft],
       [text |-> <<"error">>, value |-> PyDict([error |-> PyStr(<<"no parts">>)])],
       [text |-> <<"bare">>, value |-> PyDict([note |-> PyStr(<<"hello">>)])],
       [text |-> <<"list">>, value |-> PyList(<< PyInt(1) >>)],
       [text |-> <<"error list">>, value |-> PyList(<< PyStr(<<"e", "r", "r", "o", "r">>) >>)],
       [text |-> <<"number">>, value |-> PyInt(42)],
       [text |-> <<"null">>, value |-> PyNone],
       [text |-> <<"string">>, value |-> PyStr(<<"a", "n", " ", "e", "r", "r", "o", "r">>)],
       [text |-> <<"null configuration">>,
        value |-> PyDict([configuration |-> PyNone, total_price |-> PyInt(1)])],
       [text |-> <<"numbered name">>,
        value |-> PyDict([configuration |-> PyDict([cpu |-> PyDict([name |-> PyInt(5)])])])] >>

\* json.loads of a content text
oracle_loads(text) ==
    IF \E i \in DOMAIN oracle_documents : oracle_documents[i].text = text
    THEN Ok(oracle_documents[CHOOSE i \in DOMAIN oracle_documents :
                                 oracle_documents[i].text = text].value)
    ELSE Raise("JSONDecodeError")

\* the strings a chunk's delta may carry as content
ContentPieces ==
    { oracle_documents[i].text : i \in DOMAIN oracle_documents }
    \cup { <<"good 1/2">>, <<"good 2/2">>, <<Blank>>, <<"no json">>, <<FenceJson>>, <<Fence>>,
           <<FenceJson, Blank, "good", Blank, Fence>>, <<Blank, "good", Fence>> }

\* a chunk with one choice whose delta is given
ChunkOf(delta) == PyDict([choices |-> PyList(<< PyDict([delta |-> delta]) >>)])

\* the JSON values a data line may carry
Chunks ==
    { ChunkOf(PyDict([content |-> PyStr(p)])) : p \in ContentPieces }
    \cup { ChunkOf(PyDict([content |-> PyNone])),
           ChunkOf(PyDict([role |-> PyStr(<<"assistant">>)])),
           ChunkOf(PyDict([content |-> PyInt(1)])),
           PyDict([choices |-> PyList(<< PyDict([index |-> PyInt(0)]) >>)]),
           PyDict([choices |-> PyList(<< PyInt(1) >>)]),
           PyDict([choices |-> PyList(<<>>)]),
           PyDict([usage |-> PyInt(3)]),
           PyList(<<>>),
           PyInt(1) }

\* The lines of the stream: one that does not start with "data:", or a data
\* line whose data is empty, "[DONE]", a text that is no JSON, or a JSON value
Lines ==
    { [data |-> FALSE],
      [data |-> TRUE, kind |-> "empty"],
      [data |-> TRUE, kind |-> "done"],
      [data |-> TRUE, kind |-> "text"] }
    \cup { [data |-> TRUE, kind |-> "json", chunk |-> c] : c \in Chunks }

\* the body of the loop for a chunk that json.loads gave: the content after
\* it, or the exception that is no JSONDecodeError
chunk_content(chunk, old) ==
    IF chunk.t \in {"none", "int"} THEN Raise("TypeError")
    ELSE IF ~(chunk.t = "dict" /\ "choices" \in DOMAIN chunk.v) THEN Ok(old)
    ELSE LET choices == chunk.v["choices"]
         IN  IF choices.t # "list" THEN Raise("TypeError")
             ELSE IF Len(choices.v) = 0 THEN Ok(old)
             ELSE LET delta == Get(choices.v[1], "delta", EmptyDict)
                  IN  IF IsExc(delta) THEN delta
                      ELSE IF delta.v.t # "dict" THEN Raise("TypeError")
                      ELSE IF "content" \notin DOMAIN delta.v.v THEN Ok(old)
                      ELSE IF delta.v.v["content"].t = "none" THEN Ok(old)
                      ELSE IF delta.v.v["content"].t # "str" THEN Raise("TypeError")
                      ELSE Ok(old \o delta.v.v["content"].v)

\* a variant that does not catch the JSONDecodeError of a data line
line_content_uncaught(line, old) ==
    IF ~line.data THEN Ok(old)
    ELSE IF line.kind \in {"empty", "done"} THEN Ok(old)
    ELSE IF line.kind = "text" THEN Raise("JSONDecodeError")
    ELSE chunk_content(line.chunk, old)

\* one iteration of `for line in response.iter_lines()`
line_content(line, old) ==
    IF ~line.data THEN Ok(old)
    ELSE IF line.kind \in {"empty", "done"} THEN Ok(old)
    ELSE IF line.kind = "text" THEN Ok(old)
    ELSE chunk_content(line.chunk, old)

RECURSIVE strip_blanks(_)
\* str.strip() of a content text
strip_blanks(s) ==
    IF s # <<>> /\ Head(s) = Blank THEN strip_blanks(Tail(s))
    ELSE IF s # <<>> /\ s[Len(s)] = Blank THEN strip_blanks(SubSeq(s, 1, Len(s) - 1))
    ELSE s

\* the content without its Markdown code fence
cleaned_content(text) ==
    LET stripped == strip_blanks(text)
        opened == IF startswith(stripped, <<FenceJson>>) THEN Tail(stripped) ELSE stripped
        closed == IF endswith(opened, <<Fence>>) THEN SubSeq(opened, 1, Len(opened) - 1)
                  ELSE opened
    IN  strip_blanks(closed)

\* what follows the stream: Ok(the parsed value), or Raise for the paths that
\* return the fallback (no content, or content that is no JSON)
parse_content(text) ==
    IF text = <<>> \/ strip_blanks(text) = <<>> THEN Raise("empty")
    ELSE oracle_loads(cleaned_content(text))

-----------------------------------------------------------------------------
(* generate_computer_configuration *)

link_type_map == [cpu |-> "cpu", motherboard |-> "motherboard", memory |-> "memory",
                  video_card |-> "video-card"]

\* a variant with no map: every key is its own link type
link_type_same(component_name) == component_name

\* link_type_map.get(component_name, component_name)
link_type(component_name) ==
    IF component_name \in DOMAIN link_type_map THEN link_type_map[component_name]
    ELSE component_name

\* whether the loop gives the component a link
is_linked(component) == component.t = "dict" /\ "name" \in DOMAIN component.v

\* the configuration after the loop that adds the links, or the exception of
\* generate_taobao_link
with_links(configuration) ==
    IF \E k \in DOMAIN configuration.v :
          /\ is_linked(configuration.v[k])
          /\ IsExc(generate_taobao_link(configuration.v[k].v["name"], link_type(k)))
    THEN Raise("AttributeError")
    ELSE Ok(PyDict([k \in DOMAIN configuration.v |->
                      IF is_linked(configuration.v[k])
                      THEN PyDict(("link" :> generate_taobao_link(configuration.v[k].v["name"],
                                                                   link_type(k)).v)
                                  @@ configuration.v[k].v)
                      ELSE configuration.v[k]]))

\* `"error" in result`: a key test for a dict, membership for a list, the
\* substring test for a string, a TypeError for None and for a number
has_error(result) ==
    CASE result.t = "dict" -> Ok("error" \in DOMAIN result.v)
      [] result.t = "list" -> Ok(\E i \in DOMAIN result.v : result.v[i] = PyStr(<<"e", "r", "r", "o", "r">>))
      [] result.t = "str"  -> Ok(Contains(result.v, <<"e", "r", "r", "o", "r">>))
      [] OTHER             -> Raise("TypeError")

\* what generate_computer_configuration does with the result of the query
finish_configuration(result, usage, config_level) ==
    LET error == has_error(result)
        configuration == Get(result, "configuration", EmptyDict)
        linked == with_links(configuration.v)
    IN  IF IsExc(error) THEN error
        ELSE IF error.v THEN Ok(result)
        ELSE IF IsExc(configuration) THEN configuration
        ELSE IF configuration.v.t # "dict" THEN Raise("AttributeError")
        ELSE IF IsExc(linked) THEN linked
        ELSE Ok(PyDict([configuration       |-> linked.v,
                        total_price         |-> GetD(result, "total_price", PyInt(0)),
                        compatibility_score |-> PyFloat(100),
                        recommendation      |->
                            GetD(result, "recommendation",
                                 PyStr(config_level.v \o <<" configuration for ">> \o usage.v))]))

\* a variant that rejects the limits 1000 and 50000 as well
budget_error_inclusive(budget) ==
    IF budget <= 1000 THEN Ok(PyDict([error |-> PyStr(<<"budget too low">>)]))
    ELSE IF budget >= 50000 THEN Ok(PyDict([error |-> PyStr(<<"budget too high">>)]))
    ELSE NoOutcome

\* the budget check: the error result, or nothing when the budget passes
budget_error(budget) ==
    IF budget < 1000 THEN Ok(PyDict([error |-> PyStr(<<"budget too low">>)]))
    ELSE IF budget > 50000 THEN Ok(PyDict([error |-> PyStr(<<"budget too high">>)]))
    ELSE NoOutcome

-----------------------------------------------------------------------------
(* estimate_performance *)

\* a float with one decimal, held in tenths: PyTenths(36) is 3.6
PyTenths(n) == [t |-> "tenths", v |-> n]

RECURSIVE GCD(_, _)
GCD(a, b) == IF b = 0 THEN a ELSE GCD(b, a % b)

\* Scores are floats in the code; here they are the exact fractions <<n, d>>,
\* d > 0, in lowest terms.  On the attributes drawn below no score lies near
\* enough to a rounding tie or a threshold for the floating-point value to
\* fall on the other side.
Rat(n, d) ==
    LET g == GCD(IF n < 0 THEN 0 - n ELSE n, d)
    IN  <<n \div g, d \div g>>

RAdd(x, y) == Rat(x[1] * y[2] + y[1] * x[2], x[2] * y[2])
RMul(x, y) == Rat(x[1] * y[1], x[2] * y[2])

\* round(x): to the nearest integer, a tie to the even one
round(x) ==
    LET q == (2 * x[1] + x[2]) \div (2 * x[2])
    IN  IF (2 * x[1] + x[2]) % (2 * x[2]) = 0 /\ q % 2 = 1 THEN q - 1 ELSE q

\* a value as an operand of the arithmetic: a number, or the TypeError that a
\* text, a list, a dict or None gives in these formulas
number_of(value) ==
    CASE value.t \in {"int", "float"} -> Ok(Rat(value.v, 1))
      [] value.t = "tenths"           -> Ok(Rat(value.v, 10))
      [] OTHER                        -> Raise("TypeError")

\* The six scenarios: the weights of the three scores in tenths, the divisor,
\* and the thresholds of the recommendation from the best down.  The names
\* stand for the six Chinese names of the code, in its order.
scenario_table ==
    << [name |-> "office", cpu |-> 6, memory |-> 4, gpu |-> 0, divisor |-> 10,
        over |-> <<50, 30>>],
       [name |-> "web browsing", cpu |-> 3, memory |-> 7, gpu |-> 0, divisor |-> 10,
        over |-> <<60, 40>>],
       [name |-> "1080p gaming", cpu |-> 3, memory |-> 0, gpu |-> 7, divisor |-> 20,
        over |-> <<80, 60, 40>>],
       [name |-> "1440p gaming", cpu |-> 3, memory |-> 0, gpu |-> 7, divisor |-> 25,
        over |-> <<80, 60, 40>>],
       [name |-> "4K gaming", cpu |-> 3, memory |-> 0, gpu |-> 7, divisor |-> 35,
        over |-> <<80, 60, 40>>],
       [name |-> "video editing", cpu |-> 4, memory |-> 3, gpu |-> 3, divisor |-> 15,
        over |-> <<70, 50>>] >>

\* scenarios = [...] when the argument is None
default_scenarios ==
    PyList([i \in DOMAIN scenario_table |-> PyStr(<<scenario_table[i].name>>)])

\* the entry of one recognized scenario: the score before rounding is
\* (cpu * w1 + memory * w2 + gpu * w3) / divisor; "score" is min(100,
\* round(score)); the recommendation is the rank of the first threshold the
\* score is over, 1 the best, one more than their number when over none
scenario_entry(row, cpu_score, memory_score, gpu_score) ==
    LET weighted == RAdd(RAdd(RMul(cpu_score, Rat(row.cpu, 10)),
                              RMul(memory_score, Rat(row.memory, 10))),
                         RMul(gpu_score, Rat(row.gpu, 10)))
        score == RMul(weighted, Rat(1, row.divisor))
        passed == { i \in DOMAIN row.over : score[1] > row.over[i] * score[2] }
    IN  [score |-> IF round(score) > 100 THEN 100 ELSE round(score),
         recommendation |-> Len(row.over) + 1 - Cardinality(passed)]

\* a variant of the loop that scores all six scenarios whatever is asked for
performance_scores_all(scenarios, cpu_score, memory_score, gpu_score) ==
    [name \in { scenario_table[i].name : i \in DOMAIN scenario_table } |->
        scenario_entry(scenario_table[CHOOSE i \in DOMAIN scenario_table :
                                         scenario_table[i].name = name],
                       cpu_score, memory_score, gpu_score)]

\* the loop over the scenarios: an entry for every name that is one of the six,
\* nothing for any other element
performance_scores(scenarios, cpu_score, memory_score, gpu_score) ==
    LET rows == { i \in DOMAIN scenario_table :
                     \E j \in DOMAIN scenarios :
                        scenarios[j] = PyStr(<<scenario_table[i].name>>) }
    IN  [name \in { scenario_table[i].name : i \in rows } |->
            scenario_entry(scenario_table[CHOOSE i \in rows : scenario_table[i].name = name],
                           cpu_score, memory_score, gpu_score)]

\* the result object: sum(scores) // len(performance_scores), which divides by
\* zero when no entry was produced
performance_result(scores) ==
    IF DOMAIN scores = {} THEN Raise("ZeroDivisionError")
    ELSE Ok([performance_scores |-> scores,
             overall_rating |-> SumOver([name \in DOMAIN scores |-> scores[name].score],
                                        DOMAIN scores)
                                \div Cardinality(DOMAIN scores)])

\* the result object of the except clause, and of the server's early returns
performance_error(e) ==
    [error |-> e, performance_scores |-> <<>>, overall_rating |-> 0]

\* the multiplier a chain of `if "A" in text or "B" in text: ... elif ...`
\* picks: that of the first row one of whose words is in the text, 1.0 when
\* none is; the TypeError of `in` on a value that is no container.  A row is
\* [words, tenths].
multiplier_of(text, rows) ==
    LET hit(i) == \E w \in rows[i].words : InOp(PyStr(w), text).v
        hits == { i \in DOMAIN rows : hit(i) }
    IN  IF IsExc(InOp(EmptyStr, text)) THEN Raise("TypeError")
        ELSE IF hits = {} THEN Ok(Rat(1, 1))
        ELSE Ok(Rat(rows[CHOOSE i \in hits : \A j \in hits : i <= j].tenths, 10))

microarchitectures ==
    << [words |-> {<<"Z", "e", "n">>, <<"S", "k", "y", "l", "a", "k", "e">>}, tenths |-> 12],
       [words |-> {<<"P", "i", "l", "e", "d", "r", "i", "v", "e", "r">>, <<"I", "v", "y", " ", "B", "r", "i", "d", "g", "e">>}, tenths |-> 9],
       [words |-> {<<"K", "1", "0">>, <<"C", "o", "r", "e">>}, tenths |-> 7] >>

chipsets ==
    << [words |-> {<<"R", "T", "X", " ", "4", "0">>}, tenths |-> 15],
       [words |-> {<<"R", "T", "X", " ", "3", "0">>, <<"R", "X", " ", "7">>}, tenths |-> 13],
       [words |-> {<<"R", "T", "X", " ", "2", "0">>, <<"R", "X", " ", "6">>}, tenths |-> 11],
       [words |-> {<<"G", "T", "X", " ", "1", "0">>, <<"R", "X", " ", "5">>}, tenths |-> 8],
       [words |-> {<<"G", "T", "X", " ", "9">>, <<"R", "9">>}, tenths |-> 6] >>

\* cpu_cores * ((cpu_base_clock + cpu_boost_clock) / 2) * 10, times the
\* multiplier of the microarchitecture
cc_cpu_score(cpu) ==
    LET base_clock == GetD(cpu, "base_clock", PyFloat(3))
        cores == number_of(GetD(cpu, "core_count", PyInt(4)))
        base == number_of(base_clock)
        boost == number_of(GetD(cpu, "boost_clock", base_clock))
        multiplier == multiplier_of(GetD(cpu, "microarchitecture", EmptyStr),
                                    microarchitectures)
    IN  IF cpu.t # "dict" THEN Raise("AttributeError")
        ELSE IF IsExc(cores) \/ IsExc(base) \/ IsExc(boost) THEN Raise("TypeError")
        ELSE IF IsExc(multiplier) THEN multiplier
        ELSE Ok(RMul(RMul(RMul(cores.v, RMul(RAdd(base.v, boost.v), Rat(1, 2))),
                          Rat(10, 1)),
                     multiplier.v))

\* (memory_capacity / 8) * (memory_frequency / 3200) * 100, the capacity being
\* memory.get("capacity", memory.get("modules", [0])[0] if
\* memory.get("modules") else 8), whose default is evaluated whether or not the
\* memory has a capacity
cc_memory_score(memory) ==
    LET given == GetD(memory, "modules", PyNone)
        modules == IF ~Truthy(given) THEN Ok(PyInt(8))
                   ELSE IF given.t = "list" THEN Ok(given.v[1])
                   ELSE IF given.t = "str" THEN Ok(PyStr(<<given.v[1]>>))
                   ELSE IF given.t = "dict" THEN Raise("KeyError")
                   ELSE Raise("TypeError")
        capacity == number_of(GetD(memory, "capacity", modules.v))
        frequency == number_of(GetD(memory, "frequency", PyInt(3200)))
    IN  IF memory.t # "dict" THEN Raise("AttributeError")
        ELSE IF IsExc(modules) THEN modules
        ELSE IF IsExc(capacity) \/ IsExc(frequency) THEN Raise("TypeError")
        ELSE Ok(RMul(RMul(RMul(capacity.v, Rat(1, 8)), RMul(frequency.v, Rat(1, 3200))),
                     Rat(100, 1)))

\* (gpu_vram / 6) * ((gpu_core_clock + gpu_boost_clock) / 2 / 1000) * 200, times
\* the multiplier of the chipset
cc_gpu_score(video_card) ==
    LET core_clock == GetD(video_card, "core_clock", PyInt(1500))
        vram == number_of(GetD(video_card, "vram", GetD(video_card, "memory", PyInt(6))))
        core == number_of(core_clock)
        boost == number_of(GetD(video_card, "boost_clock", core_clock))
        multiplier == multiplier_of(GetD(video_card, "chipset", EmptyStr), chipsets)
    IN  IF video_card.t # "dict" THEN Raise("AttributeError")
        ELSE IF IsExc(vram) \/ IsExc(core) \/ IsExc(boost) THEN Raise("TypeError")
        ELSE IF IsExc(multiplier) THEN multiplier
        ELSE Ok(RMul(RMul(RMul(RMul(vram.v, Rat(1, 6)),
                               RMul(RAdd(core.v, boost.v), Rat(1, 2000))),
                          Rat(200, 1)),
                     multiplier.v))

\* the loop and the result, from the three scores.  `for scenario in scenarios`
\* goes through the elements of a list, or the characters of a text, none of
\* which is a scenario name; a value that cannot be iterated is a TypeError
scored(scenarios, cpu_score, memory_score, gpu_score) ==
    LET items == CASE scenarios.t = "list" -> Ok(scenarios.v)
                   [] scenarios.t = "str"  -> Ok(<<>>)
                   [] OTHER                -> Raise("TypeError")
    IN  IF IsExc(cpu_score) THEN cpu_score
        ELSE IF IsExc(memory_score) THEN memory_score
        ELSE IF IsExc(gpu_score) THEN gpu_score
        ELSE IF IsExc(items) THEN items
        ELSE performance_result(performance_scores(items.v, cpu_score.v, memory_score.v,
                                                   gpu_score.v))

\* estimate_performance(configuration, scenarios) of computer_configurator.py:
\* the try block, and the result object of the except clause
estimate_performance(configuration, scenarios) ==
    LET body == IF configuration.t # "dict" THEN Raise("AttributeError")
                ELSE scored(IF scenarios = PyNone THEN default_scenarios ELSE scenarios,
                            cc_cpu_score(GetD(configuration, "cpu", EmptyDict)),
                            cc_memory_score(GetD(configuration, "memory", EmptyDict)),
                            cc_gpu_score(GetD(configuration, "video-card", EmptyDict)))
    IN  IF IsExc(body) THEN Ok(performance_error(body.v)) ELSE body

RECURSIVE Power10(_)
Power10(n) == IF n = 0 THEN 1 ELSE 10 * Power10(n - 1)

\* float(text) for the decimal forms: blanks around, an optional sign, digits,
\* and optionally a point followed by digits; ValueError for any other text
\* drawn here
float_of(text) ==
    LET value(negative, whole, fraction) ==
            IF /\ whole \o fraction # <<>>
               /\ \A i \in DOMAIN (whole \o fraction) : IsDigit((whole \o fraction)[i])
            THEN Ok(Rat((IF negative THEN -1 ELSE 1) * digits_value(whole \o fraction),
                        Power10(Len(fraction))))
            ELSE Raise("ValueError")
        split(negative, digits, points) ==
            IF points = {} THEN value(negative, digits, <<>>)
            ELSE IF Cardinality(points) = 1
            THEN value(negative,
                       SubSeq(digits, 1, (CHOOSE i \in points : TRUE) - 1),
                       SubSeq(digits, (CHOOSE i \in points : TRUE) + 1, Len(digits)))
            ELSE Raise("ValueError")
        unsigned(negative, digits) ==
            split(negative, digits, { i \in DOMAIN digits : digits[i] = "." })
        signed(body) ==
            IF body # <<>> /\ Head(body) \in {"-", "+"}
            THEN unsigned(Head(body) = "-", Tail(body))
            ELSE unsigned(FALSE, body)
    IN  signed(strip(text))

\* `x = component.get(key, default) if isinstance(component, dict) else
\* default`, then `if isinstance(x, str): try: x = parse(x) except ValueError:
\* x = default`, as an operand of the arithmetic; parse is "int" or "float"
sc_operand(component, key, parse, default) ==
    LET parsed(outcome) == IF IsExc(outcome) THEN number_of(default) ELSE outcome
        whole(outcome) == IF IsExc(outcome) THEN outcome ELSE Ok(Rat(outcome.v, 1))
        operand(x) == IF x.t # "str" THEN number_of(x)
                      ELSE IF parse = "float" THEN parsed(float_of(x.v))
                      ELSE parsed(whole(int_of(x.v)))
    IN  operand(sc_get(component, key, default))

\* cpu_cores * cpu_base_clock * 10
sc_cpu_score(cpu) ==
    LET cores == sc_operand(cpu, "cores", "int", PyInt(4))
        base_clock == sc_operand(cpu, "base_clock", "float", PyFloat(3))
    IN  IF IsExc(cores) \/ IsExc(base_clock) THEN Raise("TypeError")
        ELSE Ok(RMul(RMul(cores.v, base_clock.v), Rat(10, 1)))

\* (memory_capacity / 8) * (memory_frequency / 3200) * 100
sc_memory_score(memory) ==
    LET capacity == sc_operand(memory, "capacity", "int", PyInt(8))
        frequency == sc_operand(memory, "frequency", "int", PyInt(3200))
    IN  IF IsExc(capacity) \/ IsExc(frequency) THEN Raise("TypeError")
        ELSE Ok(RMul(RMul(RMul(capacity.v, Rat(1, 8)), RMul(frequency.v, Rat(1, 3200))),
                     Rat(100, 1)))

\* (gpu_vram / 6) * (gpu_base_clock / 1500) * 200
sc_gpu_score(video_card) ==
    LET vram == sc_operand(video_card, "vram", "int", PyInt(6))
        base_clock == sc_operand(video_card, "base_clock", "int", PyInt(1500))
    IN  IF IsExc(vram) \/ IsExc(base_clock) THEN Raise("TypeError")
        ELSE Ok(RMul(RMul(RMul(vram.v, Rat(1, 6)), RMul(base_clock.v, Rat(1, 1500))),
                     Rat(200, 1)))

\* _estimate_performance_internal(configuration, scenarios) of mcp_server.py
estimate_performance_internal(configuration, scenarios) ==
    LET result(body) == IF IsExc(body) THEN Ok(performance_error(body.v)) ELSE body
        component(config_data, key) == sc_wrap(GetD(config_data, key, EmptyDict))
        estimate(config_data) ==
            IF config_data.t = "early" THEN Ok(performance_error(config_data.v))
            ELSE IF config_data.v.t # "dict" THEN Ok(performance_error("not_a_dict"))
            ELSE result(scored(IF scenarios = PyNone THEN default_scenarios ELSE scenarios,
                               sc_cpu_score(component(config_data.v, "cpu")),
                               sc_memory_score(component(config_data.v, "memory")),
                               sc_gpu_score(component(config_data.v, "video_card"))))
    IN  estimate(sc_config_data(configuration))

\* the estimate_performance tool: a configuration that is None is built from
\* the component names given instead, each one that is not empty
estimate_performance_tool(configuration, flat, scenarios) ==
    LET named(key, value) ==
            IF Truthy(value) THEN key :> PyDict([name |-> value]) ELSE <<>>
        built == PyDict(named("cpu", flat.cpu) @@ named("video_card", flat.gpu)
                        @@ named("memory", flat.memory)
                        @@ named("motherboard", flat.motherboard))
    IN  estimate_performance_internal(
            IF configuration = PyNone THEN built ELSE configuration, scenarios)

\* a variant of the score that looks at the warnings alone
score_result_lenient(compatibility_result) ==
    [compatibility_score |->
        IF 100 - Len(compatibility_result.warnings) * 10 < 0 THEN 0
        ELSE 100 - Len(compatibility_result.warnings) * 10,
     details |-> compatibility_result]

\* the result of the score tools: 100 less 10 for each warning and no less
\* than 0 when the check is compatible, 0 when it is not, with the check's
\* result as the details
score_result(compatibility_result) ==
    [compatibility_score |->
        IF ~compatibility_result.compatible THEN 0
        ELSE IF 100 - Len(compatibility_result.warnings) * 10 < 0 THEN 0
        ELSE 100 - Len(compatibility_result.warnings) * 10,
     details |-> compatibility_result]

\* the get_compatibility_score tool: a configuration that is None is built
\* from the component names given instead, each one that is not empty; the
\* name of the video card is flat.gpu
get_compatibility_score(configuration, flat) ==
    LET named(key, value) ==
            IF Truthy(value) THEN key :> PyDict([name |-> value]) ELSE <<>>
        built == PyDict(named("cpu", flat.cpu) @@ named("motherboard", flat.motherboard)
                        @@ named("memory", flat.memory)
                        @@ named("video_card", flat.gpu))
    IN  Ok(score_result(check_compatibility_internal(
                            IF configuration = PyNone THEN built ELSE configuration).v))

\* the check_compatibility_by_json tool: the check of the value the text
\* stands for; the error result when json.loads raises, a TypeError for an
\* argument that is no text
check_compatibility_by_json(configuration_json) ==
    IF configuration_json.t # "str" THEN Ok(error_result("TypeError"))
    ELSE LET configuration == json_loads(configuration_json.v)
         IN  IF IsExc(configuration) THEN Ok(error_result(configuration.v))
             ELSE check_compatibility_internal(configuration.v)

\* the get_compatibility_score_by_json tool: the score of that check, 0 with
\* the error result as details when json.loads raises
get_compatibility_score_by_json(configuration_json) ==
    IF configuration_json.t # "str"
    THEN Ok([compatibility_score |-> 0, details |-> error_result("TypeError")])
    ELSE LET configuration == json_loads(configuration_json.v)
         IN  IF IsExc(configuration)
             THEN Ok([compatibility_score |-> 0,
                      details |-> error_result(configuration.v)])
             ELSE Ok(score_result(check_compatibility_internal(configuration.v).v))

-----------------------------------------------------------------------------
(* The configurations drawn as inputs *)

\* A field that the component does not hold
Absent == [t |-> "absent"]

\* The dict entry key: value, or no entry when the value is Absent
Field(key, value) == IF value = Absent THEN <<>> ELSE (key :> value)

\* sockets and brands: every CPU name and socket with every motherboard socket
SocketConfigurations ==
    LET CpuNames ==
            {Absent, PyStr(<<"I", "n", "t", "e", "l", " ", "i", "5">>), PyStr(<<"i", "n", "t", "e", "l", " ", "i", "5">>), PyStr(<<"A", "M", "D", " ", "R", "5">>), PyStr(<<"a", "m", "d", " ", "r", "5">>),
             PyStr(<<"R", "y", "z", "e", "n", " ", "5">>)}
        CpuSockets ==
            {Absent, EmptyStr, PyStr(<<"A", "M", "4">>), PyStr(<<"a", "m", "4">>), PyStr(<<"A", "M", "4", "+">>), PyStr(<<"L", "G", "A", "1", "7", "0", "0">>),
             PyStr(<<"B", "4", "5", "0">>), PyStr(<<"X", "Y", "Z">>), PyStr(<<"x", "y", "z">>)}
        BoardSockets ==
            {Absent, EmptyStr, PyStr(<<"A", "M", "4">>), PyStr(<<"B", "4", "5", "0">>), PyStr(<<"b", "4", "5", "0">>), PyStr(<<"X", "5", "7", "0">>),
             PyStr(<<"L", "G", "A", "1", "7", "0", "0">>), PyStr(<<"Z", "7", "9", "0">>), PyStr(<<"A", "M", "D", " ", "A", "M", "4">>), PyStr(<<"a", "m", "d", " ", "a", "m", "4">>),
             PyStr(<<"I", "n", "t", "e", "l", " ", "L", "G", "A", "1", "7", "0", "0">>), PyStr(<<"I", "N", "T", "E", "L", " ", "Z", "7", "9", "0">>), PyStr(<<"X", "Y", "Z">>), PyStr(<<"B", "6", "5", "0">>)}
    IN  { PyDict(Field("cpu", PyDict(Field("name", n) @@ Field("socket", s)))
                 @@ Field("motherboard", PyDict(Field("socket", b)))) :
            n \in CpuNames, s \in CpuSockets, b \in BoardSockets }

\* memory: every memory type and name with every motherboard support and name
MemoryConfigurations ==
    LET MemoryTypes ==
            {Absent, EmptyStr, PyStr(<<"D", "D", "R", "4">>), PyStr(<<"d", "d", "r", "4">>), PyStr(<<"D", "D", "R", "5">>), PyStr(<<"D", "D", "R">>)}
        MemoryNames ==
            {Absent, PyStr(<<"G", ".", "S", "k", "i", "l", "l", " ", "D", "D", "R", "5", " ", "3", "2", "G", "B">>), PyStr(<<"K", "i", "n", "g", "s", "t", "o", "n", " ", "d", "d", "r", "4">>), PyStr(<<"D", "D", "R", "3", " ", "D", "D", "R", "4", " ", "k", "i", "t">>),
             PyStr(<<"C", "o", "r", "s", "a", "i", "r">>)}
        MemorySupports ==
            {Absent, PyStr(<<"D", "D", "R", "4">>), PyStr(<<"d", "d", "r", "4">>), PyStr(<<"D", "D", "R", "5">>), PyStr(<<"D", "D", "R", "4", "/", "D", "D", "R", "5">>),
             PyList(<< PyStr(<<"D", "D", "R", "4">>), PyStr(<<"D", "D", "R", "5">>) >>), PyList(<< PyStr(<<"d", "d", "r", "4", " ", "3", "2", "0", "0">>) >>),
             PyList(<<>>)}
        BoardNames ==
            {Absent, PyStr(<<"X", "6", "7", "0", " ", "b", "o", "a", "r", "d">>), PyStr(<<"M", "S", "I", " ", "B", "5", "5", "0">>), PyStr(<<"Z", "8", "7", " ", "A", "M", "5">>), PyStr(<<"G", "e", "n", "e", "r", "i", "c">>)}
    IN  { PyDict(Field("memory", PyDict(Field("type", t) @@ Field("name", n)))
                 @@ Field("motherboard", PyDict(Field("memory_support", s) @@ Field("name", b)))) :
            t \in MemoryTypes, n \in MemoryNames, s \in MemorySupports, b \in BoardNames }

\* power: the CPU and graphics card draw against the power supply's rating, on
\* a matching and on a mismatched pair of sockets
PowerConfigurations ==
    LET Wattages == {Absent, PyInt(0), PyInt(65), PyInt(100), PyInt(125)}
        GpuWattages == {Absent, PyInt(100), PyInt(300)}
        Ratings == {Absent, PyInt(0), PyInt(300), PyInt(500)}
        GpuKeys == {"video-card", "video_card"}
    IN  { PyDict(Field("cpu", PyDict(Field("tdp", c) @@ Field("socket", PyStr(<<"A", "M", "4">>))))
                 @@ Field("motherboard", PyDict(Field("socket", b)))
                 @@ Field(k, PyDict(Field("tdp", g)))
                 @@ Field("power-supply", PyDict(Field("power", p)))) :
            c \in Wattages, g \in GpuWattages, p \in Ratings, k \in GpuKeys,
            b \in {PyStr(<<"B", "4", "5", "0">>), PyStr(<<"Z", "7", "9", "0">>)} }

\* capacity and frequency: the numbers the server's check reads
CapacityConfigurations ==
    LET Capacities ==
            {Absent, PyInt(8), PyInt(64), PyInt(65), PyStr(<<"6", "4">>), PyStr(<<" ", "9", "6", " ">>), PyStr(<<"b", "i", "g">>)}
        Frequencies == {Absent, PyInt(3200), PyInt(5600), PyStr(<<"6", "0", "0", "0">>), PyStr(<<"f", "a", "s", "t">>)}
        MaxMemories == {Absent, PyInt(64), PyStr(<<"3", "2">>)}
        MaxFrequencies == {Absent, PyInt(3600)}
    IN  { PyDict(Field("memory", PyDict(Field("capacity", c) @@ Field("frequency", f)))
                 @@ Field("motherboard", PyDict(Field("max_memory", m)
                                                @@ Field("max_memory_frequency", x)))) :
            c \in Capacities, f \in Frequencies, m \in MaxMemories, x \in MaxFrequencies }

\* case: the form factors and the graphics card length against the case
CaseConfigurations ==
    LET CaseFormFactors == {Absent, PyStr(<<"A", "T", "X">>), PyStr(<<"M", "i", "n", "i", " ", "I", "T", "X">>), PyStr(<<"a", "t", "x">>), PyStr(<<"T", "o", "w", "e", "r">>)}
        BoardFormFactors == {Absent, PyStr(<<"A", "T", "X">>), PyStr(<<"M", "i", "c", "r", "o", " ", "A", "T", "X">>), PyStr(<<"E", "A", "T", "X">>)}
        Clearances == {Absent, PyInt(0), PyInt(300)}
        Lengths == {Absent, PyInt(250), PyInt(320)}
    IN  { PyDict(Field("case", PyDict(Field("form_factor", c) @@ Field("max_gpu_length", m)))
                 @@ Field("motherboard", PyDict(Field("form_factor", b)))
                 @@ Field("video-card", PyDict(Field("length", l)))) :
            c \in CaseFormFactors, b \in BoardFormFactors, m \in Clearances, l \in Lengths }

BrokenConfigurations ==
        \* a configuration that breaks every rule of one implementation or the other, and
        \* its parts
    LET BrokenCpu == PyDict([name |-> PyStr(<<"I", "n", "t", "e", "l", " ", "i", "5">>), socket |-> PyStr(<<"L", "G", "A", "1", "7", "0", "0">>), tdp |-> PyInt(125)])
        BrokenBoard ==
            PyDict([socket |-> PyStr(<<"A", "M", "D", " ", "A", "M", "4">>), memory_support |-> PyStr(<<"D", "D", "R", "4">>),
                    form_factor |-> PyStr(<<"A", "T", "X">>), max_memory |-> PyInt(64),
                    max_memory_frequency |-> PyInt(3600)])
        BrokenMemory == PyDict([type |-> PyStr(<<"D", "D", "R", "5">>), capacity |-> PyInt(64), frequency |-> PyInt(5600)])
        BrokenCard == PyDict([tdp |-> PyInt(300), length |-> PyInt(320)])
        BrokenSupply == PyDict([power |-> PyInt(300)])
        BrokenCase == PyDict([form_factor |-> PyStr(<<"M", "i", "n", "i", " ", "I", "T", "X">>), max_gpu_length |-> PyInt(300)])
    IN  { PyDict(Field("cpu", c) @@ Field("motherboard", b) @@ Field("memory", m)
                 @@ Field("video-card", g) @@ Field("power-supply", p) @@ Field("case", k)) :
            c \in {Absent, BrokenCpu}, b \in {Absent, BrokenBoard}, m \in {Absent, BrokenMemory},
            g \in {Absent, BrokenCard}, p \in {Absent, BrokenSupply}, k \in {Absent, BrokenCase} }

\* values of the wrong type, for a component and for a field
WrongValues == {PyNone, PyInt(5), PyInt(0), PyList(<< PyInt(1) >>), PyStr(<<"I", "n", "t", "e", "l", " ", "i", "5">>)}

ComponentKeys == {"cpu", "motherboard", "memory", "video-card", "power-supply", "case"}

\* a component of the wrong type in an otherwise empty configuration
WrongComponents == { PyDict(k :> w) : k \in ComponentKeys, w \in WrongValues }

\* a field of the wrong type in a configuration whose other fields make the
\* rules read it
WrongFields ==
    LET WrongFieldKeys ==
            { <<"cpu", "name">>, <<"cpu", "socket">>, <<"cpu", "tdp">>,
              <<"motherboard", "socket">>, <<"motherboard", "memory_support">>,
              <<"motherboard", "name">>, <<"motherboard", "form_factor">>,
              <<"motherboard", "max_memory">>, <<"motherboard", "max_memory_frequency">>,
              <<"memory", "type">>, <<"memory", "name">>, <<"memory", "capacity">>,
              <<"memory", "frequency">>, <<"video-card", "tdp">>, <<"video-card", "length">>,
              <<"power-supply", "power">>, <<"case", "form_factor">>, <<"case", "max_gpu_length">> }
    IN  { PyDict([c \in ComponentKeys |->
                     PyDict((IF c = k[1] THEN k[2] :> w ELSE <<>>)
                            @@ (CASE c = "cpu" -> [name |-> PyStr(<<"I", "n", "t", "e", "l", " ", "i", "5">>), socket |-> PyStr(<<"A", "M", "4">>)]
                                  [] c = "motherboard" -> [socket |-> PyStr(<<"B", "4", "5", "0">>),
                                                           memory_support |-> PyStr(<<"D", "D", "R", "4">>)]
                                  [] c = "memory" -> [type |-> PyStr(<<"D", "D", "R", "4">>)]
                                  [] c = "case" -> [max_gpu_length |-> PyInt(300)]
                                  [] OTHER -> <<>>))]) :
            k \in WrongFieldKeys, w \in WrongValues \cup {PyList(<< PyStr(<<"D", "D", "R", "4">>), PyInt(4) >>)} }

\* what is no configuration at all: nothing, a number, a list, a text that is
\* JSON or not
NoConfigurations ==
    {PyNone, PyInt(5), PyList(<<>>), PyStr(<<"n", "o", "t", " ", "j", "s", "o", "n">>), PyStr(<<>>)}
    \cup { PyStr(json_documents[i].text) : i \in DOMAIN json_documents }

BareConfigurations ==
    SocketConfigurations \cup MemoryConfigurations \cup PowerConfigurations
    \cup CapacityConfigurations \cup CaseConfigurations \cup BrokenConfigurations
    \cup WrongComponents \cup WrongFields

\* a configuration under the key "configuration" of a wrapper object
Wrapped(configuration) == PyDict([configuration |-> configuration])

WrappedConfigurations ==
    { Wrapped(c) : c \in BrokenConfigurations \cup NoConfigurations \cup WrongComponents }

\* the configurations of the three fallback templates, as get_mock_configuration
\* builds them and as generate_computer_configuration returns them, with links
FallbackConfigurations ==
    LET templates == {entry_template, mid_template, high_template}
    IN  templates \cup { with_links(t).v : t \in templates }

Configurations ==
    BareConfigurations \cup NoConfigurations \cup WrappedConfigurations
    \cup FallbackConfigurations

\* performance: processors, memories and graphics cards with whole, decimal,
\* zero, negative, textual and missing attributes, the graphics card under
\* either spelling of its key; the first of each kind with attributes is that
\* of the specification's example
PerformanceConfigurations ==
    LET Processors ==
            {Absent,
             PyDict([cores |-> PyInt(6), base_clock |-> PyTenths(36), boost_clock |-> PyTenths(42)]),
             PyDict([cores |-> PyInt(8), core_count |-> PyInt(8), base_clock |-> PyTenths(36),
                     boost_clock |-> PyTenths(42), microarchitecture |-> PyStr(<<"Z", "e", "n", " ", "3">>)]),
             PyDict([cores |-> PyStr(<<"6">>), core_count |-> PyStr(<<"6">>), base_clock |-> PyStr(<<"3", ".", "6">>)]),
             PyDict([cores |-> PyStr(<<"s", "i", "x">>), base_clock |-> PyStr(<<"f", "a", "s", "t">>)]),
             PyDict([cores |-> PyInt(-2), core_count |-> PyInt(-2)]),
             PyDict([cores |-> PyInt(0), core_count |-> PyInt(0)]),
             PyDict([cores |-> PyInt(64), core_count |-> PyInt(64), base_clock |-> PyInt(5)]),
             PyStr(<<"I", "n", "t", "e", "l", " ", "i", "5">>)}
        Memories ==
            {Absent,
             PyDict([capacity |-> PyInt(32), frequency |-> PyInt(3600)]),
             PyDict([capacity |-> PyStr(<<"1", "6">>), frequency |-> PyStr(<<" ", "3", "2", "0", "0", " ">>)]),
             PyDict([capacity |-> PyStr(<<"l", "o", "t", "s">>)]),
             PyDict([capacity |-> PyInt(-8)]),
             PyDict([modules |-> PyList(<< PyInt(2), PyInt(16) >>)])}
        Cards ==
            {Absent,
             PyDict([vram |-> PyInt(12), core_clock |-> PyInt(1800), boost_clock |-> PyInt(2200),
                     chipset |-> PyStr(<<"R", "T", "X", " ", "3", "0">>)]),
             PyDict([vram |-> PyStr(<<"8">>), base_clock |-> PyStr(<<"1", "7", "0", "0">>)]),
             PyDict([vram |-> PyInt(-4), base_clock |-> PyInt(1800)]),
             PyDict([memory |-> PyInt(24), vram |-> PyInt(24), core_clock |-> PyInt(2500),
                     base_clock |-> PyInt(2500), chipset |-> PyStr(<<"G", "e", "F", "o", "r", "c", "e", " ", "R", "T", "X", " ", "4", "0", "9", "0">>)])}
        GpuKeys == {"video-card", "video_card"}
    IN  { PyDict(Field("cpu", c) @@ Field("memory", m) @@ Field(k, g)) :
            c \in Processors, m \in Memories, g \in Cards, k \in GpuKeys }

\* the configurations a performance estimate is asked for
EstimatedConfigurations ==
    PerformanceConfigurations \cup NoConfigurations
    \cup { Wrapped(c) : c \in BrokenConfigurations \cup {PyNone} }

\* the scenarios argument: omitted, lists with recognized and unrecognized
\* names, and values that are no list
ScenarioLists ==
    LET name(i) == PyStr(<<scenario_table[i].name>>)
        other == PyStr(<<"r", "e", "n", "d", "e", "r", "i", "n", "g">>)
    IN  {PyNone, PyList(<<>>), PyList(<< other >>), PyList(<< name(1) >>),
         PyList(<< other, name(3), name(5) >>), PyList(<< name(6), name(6), PyInt(3) >>),
         PyList(<< name(6), name(5), name(4), name(3), name(2), name(1) >>),
         PyStr(<<"o", "f", "f", "i", "c", "e">>), PyInt(3)}

\* the component names the estimate_performance tool takes instead of a
\* configuration
FlatArguments ==
    { [cpu |-> c, gpu |-> g, memory |-> PyNone, motherboard |-> m] :
        c \in {PyNone, PyStr(<<"I", "n", "t", "e", "l", " ", "i", "5">>)}, g \in {PyNone, EmptyStr},
        m \in {PyNone, PyStr(<<"B", "4", "5", "0">>)} }

-----------------------------------------------------------------------------
(* The server: one call at a time *)

\* no line: the loop over the stream is not running
NoLine == [data |-> FALSE, kind |-> "none"]

Init ==
    /\ pc = "idle"
    /\ op = "none"
    /\ arg = PyNone
    /\ res = NoOutcome
    /\ requests = 0
    /\ fallbacks = 0
    /\ queries = 0
    /\ nlines = 0
    /\ content = <<>>
    /\ llm = NoOutcome
    /\ failure = "none"
    /\ line_read = NoLine
    /\ served = FALSE

\* a call starts when the server is idle; the counters are those of the call
Begin(operation, argument) ==
    /\ op' = operation
    /\ arg' = argument
    /\ requests' = 0
    /\ fallbacks' = 0
    /\ queries' = 0
    /\ nlines' = 0
    /\ content' = <<>>
    /\ llm' = NoOutcome
    /\ failure' = "none"
    /\ line_read' = NoLine
    /\ served' = served

\* check_compatibility(configuration) of computer_configurator.py
CheckCompatibility ==
    /\ pc = "idle"
    /\ \E configuration \in Configurations :
          /\ Begin("check_compatibility", configuration)
          /\ res' = check_compatibility(configuration)
          /\ pc' = "done"

\* the check_compatibility tool of mcp_server.py
ServerCheckCompatibility ==
    /\ pc = "idle"
    /\ \E configuration \in Configurations :
          /\ Begin("server_check_compatibility", configuration)
          /\ res' = check_compatibility_internal(configuration)
          /\ pc' = "done"

\* estimate_performance(configuration, scenarios) of computer_configurator.py
EstimatePerformance ==
    /\ pc = "idle"
    /\ \E configuration \in EstimatedConfigurations, scenarios \in ScenarioLists :
          /\ Begin("estimate_performance",
                   [configuration |-> configuration, scenarios |-> scenarios])
          /\ res' = estimate_performance(configuration, scenarios)
          /\ pc' = "done"

\* the estimate_performance tool of mcp_server.py
ServerEstimatePerformance ==
    /\ pc = "idle"
    /\ \E configuration \in EstimatedConfigurations, scenarios \in ScenarioLists :
          \E flat \in IF configuration = PyNone THEN FlatArguments
                       ELSE { f \in FlatArguments : \A k \in DOMAIN f : f[k] = PyNone } :
             /\ Begin("server_estimate_performance",
                      [configuration |-> configuration, scenarios |-> scenarios,
                       flat |-> flat])
             /\ res' = estimate_performance_tool(configuration, flat, scenarios)
             /\ pc' = "done"

\* the get_compatibility_score tool of mcp_server.py
GetCompatibilityScore ==
    /\ pc = "idle"
    /\ \E configuration \in Configurations :
          \E flat \in IF configuration = PyNone THEN FlatArguments
                       ELSE { f \in FlatArguments : \A k \in DOMAIN f : f[k] = PyNone } :
             /\ Begin("get_compatibility_score",
                      [configuration |-> configuration, flat |-> flat])
             /\ res' = get_compatibility_score(configuration, flat)
             /\ pc' = "done"

\* the check_compatibility_by_json and get_compatibility_score_by_json tools
\* of mcp_server.py
CheckByJson ==
    /\ pc = "idle"
    /\ \E configuration_json \in NoConfigurations,
          operation \in {"check_compatibility_by_json", "get_compatibility_score_by_json"} :
          /\ Begin(operation, [configuration |-> configuration_json])
          /\ res' = IF operation = "check_compatibility_by_json"
                    THEN check_compatibility_by_json(configuration_json)
                    ELSE get_compatibility_score_by_json(configuration_json)
          /\ pc' = "done"

Budgets == {999, 1000, 3999, 4000, 6999, 7000, 50000, 50001}
Usages == {PyStr(<<"gaming">>), PyStr(<<"office">>)}
Levels == {PyStr(<<"entry">>), PyStr(<<"high">>)}
Requests == { [budget |-> b, usage |-> u, config_level |-> l] :
                 b \in Budgets, u \in Usages, l \in Levels }

MaxLines == 2

\* generate_computer_configuration(budget, usage, config_level), up to the call
\* of query_llm_for_configuration: a budget out of range ends the call
GenerateConfiguration ==
    /\ pc = "idle"
    /\ \E request \in Requests :
          /\ op' = "generate_computer_configuration"
          /\ arg' = request
          /\ requests' = 0
          /\ fallbacks' = 0
          /\ nlines' = 0
          /\ content' = <<>>
          /\ llm' = NoOutcome
          /\ failure' = "none"
          /\ line_read' = NoLine
          /\ served' = served
          /\ IF budget_error(request.budget) # NoOutcome
             THEN /\ res' = budget_error(request.budget)
                  /\ queries' = 0
                  /\ pc' = "done"
             ELSE /\ res' = NoOutcome
                  /\ queries' = 1
                  /\ pc' = "query"

\* a variant that builds the fallback a second time before it returns it
ReturnFallbackTwice(kind) ==
    /\ failure' = kind
    /\ fallbacks' = fallbacks + 2
    /\ llm' = Ok(get_mock_configuration(arg.budget, arg.usage, arg.config_level))
    /\ content' = <<>>
    /\ pc' = "finish"

\* query_llm_for_configuration returns the fallback: get_mock_configuration is
\* called and its value returned to generate_computer_configuration; kind
\* records the failure that led here
\* a variant whose templates are shared by the calls: once a call has
\* returned, the template handed out holds the links written into it
ReturnFallbackShared(kind) ==
    /\ failure' = kind
    /\ fallbacks' = fallbacks + 1
    /\ llm' = LET fresh == get_mock_configuration(arg.budget, arg.usage, arg.config_level)
              IN  Ok(IF served
                     THEN PyDict([fresh.v EXCEPT
                                    !["configuration"] = with_links(@).v])
                     ELSE fresh)
    /\ content' = <<>>
    /\ pc' = "finish"

ReturnFallback(kind) ==
    /\ failure' = kind
    /\ fallbacks' = fallbacks + 1
    /\ llm' = Ok(get_mock_configuration(arg.budget, arg.usage, arg.config_level))
    /\ content' = <<>>
    /\ pc' = "finish"

\* query_llm_for_configuration reads the API key: without one it returns the
\* fallback and sends nothing
QueryWithoutKey ==
    /\ pc = "query"
    /\ ReturnFallback("no key")
    /\ UNCHANGED <<op, arg, res, requests, queries, nlines, line_read, served>>

\* with a key it sends the one request; the transport fails, or the oracle
\* answers with a status
SendRequest ==
    /\ pc = "query"
    /\ requests' = requests + 1
    /\ \E answer \in {"exception", "status 500", "status 200"} :
          IF answer = "status 200"
          THEN /\ pc' = "stream"
               /\ UNCHANGED <<fallbacks, llm, content, failure>>
          ELSE ReturnFallback(answer)
    /\ UNCHANGED <<op, arg, res, queries, nlines, line_read, served>>

\* the loop reads one line of the stream
ReadLine ==
    /\ pc = "stream"
    /\ nlines < MaxLines
    /\ nlines' = nlines + 1
    /\ \E next \in Lines :
          /\ line_read' = next
          /\ IF IsExc(line_content(next, content))
             THEN ReturnFallback("chunk")
             ELSE /\ content' = line_content(next, content).v
                  /\ UNCHANGED <<fallbacks, llm, pc, failure>>
    /\ UNCHANGED <<op, arg, res, requests, queries, served>>

\* the stream breaks (a timeout, a read error) while the loop waits for a line
StreamFails ==
    /\ pc = "stream"
    /\ ReturnFallback("stream")
    /\ UNCHANGED <<op, arg, res, requests, queries, nlines, served>>
    /\ line_read' = NoLine

\* the stream ends: the content is cleaned and parsed, and the value returned,
\* or the fallback when there is no content or no JSON in it
StreamEnds ==
    /\ pc = "stream"
    /\ IF IsExc(parse_content(content))
       THEN ReturnFallback(parse_content(content).v)
       ELSE /\ llm' = parse_content(content)
            /\ content' = <<>>
            /\ pc' = "finish"
            /\ UNCHANGED <<fallbacks, failure>>
    /\ UNCHANGED <<op, arg, res, requests, queries, nlines, served>>
    /\ line_read' = NoLine

\* generate_computer_configuration after the query: the error check, the links
\* and the result
FinishConfiguration ==
    /\ pc = "finish"
    /\ res' = finish_configuration(llm.v, arg.usage, arg.config_level)
    /\ pc' = "done"
    /\ UNCHANGED <<op, arg, requests, fallbacks, queries, nlines, content, llm, failure, line_read, served>>

\* the call has returned (or raised) and the server is idle again: nothing
\* of the call is kept
Return ==
    /\ pc = "done"
    /\ pc' = "idle"
    /\ op' = "none"
    /\ arg' = PyNone
    /\ res' = NoOutcome
    /\ requests' = 0
    /\ fallbacks' = 0
    /\ queries' = 0
    /\ nlines' = 0
    /\ content' = <<>>
    /\ llm' = NoOutcome
    /\ failure' = "none"
    /\ line_read' = NoLine
    /\ served' = TRUE

Next ==
    \/ CheckCompatibility
    \/ ServerCheckCompatibility
    \/ EstimatePerformance
    \/ ServerEstimatePerformance
    \/ GetCompatibilityScore
    \/ CheckByJson
    \/ GenerateConfiguration
    \/ QueryWithoutKey
    \/ SendRequest
    \/ ReadLine
    \/ StreamFails
    \/ StreamEnds
    \/ FinishConfiguration
    \/ Return

Spec == Init /\ [][Next]_vars

-----------------------------------------------------------------------------
(* Properties *)

CheckOperations == {"check_compatibility", "server_check_compatibility"}

\* a compatibility check has returned
Checked == pc = "done" /\ op \in CheckOperations

\* the number of issues of a kind in a result
CountKind(result, kinds) ==
    Cardinality({ i \in DOMAIN result.issues : result.issues[i].kind \in kinds })

\* whether the check of the current call failed inside: an exception in the
\* rules, or an input the server's check refuses before it reads a component
FailedInside ==
    IF op = "check_compatibility" THEN IsExc(check_compatibility_try(arg))
    ELSE LET config_data == sc_config_data(arg)
         IN  \/ config_data.t = "early"
             \/ config_data.v.t # "dict"
             \/ IsExc(sc_rules(config_data.v))

\* C1: every result of a compatibility check, of either implementation and an
\* error result as well, has compatible true exactly when its list of issues is
\* empty, whatever its warnings are.
C1_CompatibleIffNoIssues ==
    (Checked /\ res.t = "ok") => (res.v.compatible <=> Len(res.v.issues) = 0)

\* C1 witness: a result with a warning and no issue, which is compatible
C1_Witness ==
    /\ Checked
    /\ res.t = "ok"
    /\ Len(res.v.warnings) > 0
    /\ Len(res.v.issues) = 0
    /\ res.v.compatible

\* C2: a compatibility check never raises: it returns an object with the three
\* fields compatible, issues and warnings for every input, and when it failed
\* inside, the object is incompatible with exactly one issue and no warning.
C2_CheckNeverRaises ==
    Checked =>
        /\ res.t = "ok"
        /\ DOMAIN res.v = {"compatible", "issues", "warnings"}
        /\ FailedInside =>
              /\ res.v.compatible = FALSE
              /\ Len(res.v.issues) = 1
              /\ res.v.warnings = <<>>

\* C2 witness: the configurator's check given None, which fails inside and
\* returns the error result
C2_Witness ==
    /\ Checked
    /\ op = "check_compatibility"
    /\ arg = PyNone
    /\ res = Ok(error_result("AttributeError"))

\* a call of generate_computer_configuration is under way or has ended
Generating == op = "generate_computer_configuration"

\* the query of the current call has returned the fallback
FellBack == Generating /\ pc \in {"finish", "done"} /\ failure # "none"

ResultKeys == {"configuration", "total_price", "recommendation", "compatibility_score"}

\* C3: for every budget from 1000 to 50000 and every value the query returns,
\* generate_computer_configuration returns, without raising, a result with
\* configuration, total_price, recommendation and compatibility_score = 100.0.
C3_GenerateAlwaysReturnsResult ==
    (Generating /\ pc = "done" /\ arg.budget \in 1000..50000) =>
        /\ res.t = "ok"
        /\ res.v.t = "dict"
        /\ ResultKeys \subseteq DOMAIN res.v.v
        /\ res.v.v["compatibility_score"] = PyFloat(100)

\* C4 as stated: whenever the query fails, it returns the fallback once, after
\* exactly one request.
C4_FallbackAfterOneRequest ==
    FellBack =>
        /\ llm = Ok(get_mock_configuration(arg.budget, arg.usage, arg.config_level))
        /\ fallbacks = 1
        /\ requests = 1

\* C4: whenever the query fails, it returns the fallback template of the budget,
\* built once, and never the failure itself; it has sent one request and no
\* more, except without an API key, where it has sent none. A query that did not
\* fail has sent one request and built no fallback.
C4_FallbackOnceNoRetry ==
    /\ requests <= 1
    /\ FellBack =>
          /\ llm = Ok(get_mock_configuration(arg.budget, arg.usage, arg.config_level))
          /\ fallbacks = 1
          /\ requests = (IF failure = "no key" THEN 0 ELSE 1)
    /\ (Generating /\ pc \in {"finish", "done"} /\ queries = 1 /\ failure = "none") =>
          (fallbacks = 0 /\ requests = 1)

\* C4 witness: the oracle answered 200 with a content that is no JSON, and the
\* call ended with the fallback after its one request
C4_Witness ==
    /\ FellBack
    /\ pc = "done"
    /\ failure = "JSONDecodeError"
    /\ requests = 1
    /\ fallbacks = 1
    /\ res.t = "ok"

\* C5: a budget under 1000 or over 50000 ends generate_computer_configuration
\* with a result that holds an error message only, and neither the query nor
\* the fallback nor a request happens; budgets of 1000 and 50000 are not
\* rejected and go on to the query.
C5_BudgetRange ==
    Generating =>
        IF arg.budget < 1000 \/ arg.budget > 50000
        THEN /\ pc = "done"
             /\ res.t = "ok"
             /\ res.v.t = "dict"
             /\ DOMAIN res.v.v = {"error"}
             /\ queries = 0
             /\ fallbacks = 0
             /\ requests = 0
        ELSE /\ queries = 1
             /\ pc = "done" => ~(res.t = "ok" /\ res.v.t = "dict" /\ res.v.v \in
                                   {budget_error(999).v.v, budget_error(50001).v.v})

\* C5 witness: a budget of 50001 rejected with the error result
C5_Witness ==
    /\ Generating
    /\ pc = "done"
    /\ arg.budget = 50001
    /\ res = budget_error(50001)
    /\ queries = 0

\* the sum of the four prices of a fallback value
FourPrices(fallback) ==
    LET parts == fallback.v["configuration"].v
    IN  parts["cpu"].v["price"].v + parts["motherboard"].v["price"].v
        + parts["memory"].v["price"].v + parts["video_card"].v["price"].v

\* C6: the fallback is the entry template for a budget under 4000, the mid
\* template from 4000 and under 7000, the high template from 7000, whatever the
\* usage and the tier asked for; it has exactly the components cpu, motherboard,
\* memory and video_card, and its total_price is the sum of their four prices.
C6_FallbackByBudget ==
    FellBack =>
        /\ llm.t = "ok"
        /\ llm.v.v["configuration"] =
              (IF arg.budget < 4000 THEN entry_template
               ELSE IF arg.budget < 7000 THEN mid_template
               ELSE high_template)
        /\ DOMAIN llm.v.v["configuration"].v = {"cpu", "motherboard", "memory", "video_card"}
        /\ llm.v.v["total_price"] = PyInt(FourPrices(llm.v))
        /\ \A u \in Usages, l \in Levels :
              LET other == get_mock_configuration(arg.budget, u, l)
              IN  /\ other.v["configuration"] = llm.v.v["configuration"]
                  /\ other.v["total_price"] = llm.v.v["total_price"]

\* C6 witness: a budget of 4000 asked for the entry tier falls back to the mid
\* template
C6_Witness ==
    /\ FellBack
    /\ arg.budget = 4000
    /\ arg.config_level = PyStr(<<"entry">>)
    /\ llm.v.v["configuration"] = mid_template
    /\ llm.v.v["total_price"] = PyInt(6700)

\* the configurator's check has returned
CheckedByConfigurator == pc = "done" /\ op = "check_compatibility"

\* the argument is a configuration object itself, not one under "configuration"
BareArgument == arg.t = "dict" /\ "configuration" \notin DOMAIN arg.v

\* the field of a component of the argument, Absent when the argument does not
\* hold it
ArgField(component, field) ==
    IF /\ arg.t = "dict"
       /\ component \in DOMAIN arg.v
       /\ arg.v[component].t = "dict"
       /\ field \in DOMAIN arg.v[component].v
    THEN arg.v[component].v[field]
    ELSE Absent

\* a text field that is absent or empty
Missing(value) == value = Absent \/ value = EmptyStr

\* a text field that is given and not empty
Given(value) == value.t = "str" /\ value.v # <<>>

\* the families of the socket table whose key the socket starts with
FamiliesOf(socket_lower) ==
    { i \in DOMAIN compatibility_rules : startswith(socket_lower, compatibility_rules[i].family) }

\* C7: when the CPU's socket or the motherboard's socket is absent or empty,
\* the result of check_compatibility holds no socket issue, whatever the other
\* socket and the names are.
C7_NoSocketIssueWhenAbsent ==
    (CheckedByConfigurator /\ res.t = "ok"
        /\ (Missing(ArgField("cpu", "socket")) \/ Missing(ArgField("motherboard", "socket"))))
    => CountKind(res.v, {"socket"}) = 0

\* C7 witness: a CPU with a name and the socket LGA1700 on a motherboard that
\* gives no socket: the check ran its rules and found nothing
C7_Witness ==
    /\ CheckedByConfigurator
    /\ ArgField("cpu", "socket") = PyStr(<<"L", "G", "A", "1", "7", "0", "0">>)
    /\ ArgField("cpu", "name") = PyStr(<<"I", "n", "t", "e", "l", " ", "i", "5">>)
    /\ "motherboard" \in DOMAIN arg.v
    /\ ArgField("motherboard", "socket") = Absent
    /\ res = Ok(cc_result(<<>>, <<>>))

\* C8: with both sockets given and the lower-cased CPU socket starting with a
\* family key of the socket table, a check that runs to its end adds no socket
\* issue when the lower-cased motherboard socket is in the set of such a family,
\* and adds exactly one socket issue, which names both sockets as written, and
\* is incompatible, when the motherboard socket is in no such set and differs
\* from the CPU socket.
C8_SocketFamilies ==
    (CheckedByConfigurator /\ res.t = "ok"
        /\ Given(ArgField("cpu", "socket")) /\ Given(ArgField("motherboard", "socket"))
        /\ FamiliesOf(lower(ArgField("cpu", "socket").v)) # {}
        /\ ~IsExc(check_compatibility_try(arg)))
    => LET cpu_socket == ArgField("cpu", "socket").v
           motherboard_socket == ArgField("motherboard", "socket").v
           listed == \E i \in FamiliesOf(lower(cpu_socket)) :
                        InSeq(lower(motherboard_socket), compatibility_rules[i].sockets)
       IN  /\ listed => CountKind(res.v, {"socket"}) = 0
           /\ (~listed /\ lower(cpu_socket) # lower(motherboard_socket)) =>
                 /\ CountKind(res.v, {"socket"}) = 1
                 /\ \E i \in DOMAIN res.v.issues :
                       res.v.issues[i] = [kind |-> "socket", cpu_socket |-> cpu_socket,
                                          motherboard_socket |-> motherboard_socket]
                 /\ res.v.compatible = FALSE

\* C8 witness: CPU socket AM4 on a B450 motherboard, found compatible
C8_Witness ==
    /\ CheckedByConfigurator
    /\ ArgField("cpu", "socket") = PyStr(<<"A", "M", "4">>)
    /\ ArgField("motherboard", "socket") = PyStr(<<"B", "4", "5", "0">>)
    /\ ArgField("cpu", "name") = Absent
    /\ "power-supply" \notin DOMAIN arg.v
    /\ res = Ok(cc_result(<<>>, <<>>))

\* whether the CPU name and the motherboard socket name two different vendors,
\* in any letter case
VendorsCrossed(cpu_name, motherboard_socket) ==
    \/ Contains(lower(cpu_name), <<"i", "n", "t", "e", "l">>) /\ Contains(lower(motherboard_socket), <<"a", "m", "d">>)
    \/ Contains(lower(cpu_name), <<"a", "m", "d">>) /\ Contains(lower(motherboard_socket), <<"i", "n", "t", "e", "l">>)

\* the name and socket the vendor rule reads, empty when not given
TextOf(value) == IF value.t = "str" THEN value.v ELSE <<>>

\* the check ran its rules on the argument itself, whose components are
\* objects, and did not fail
RanRules ==
    /\ Checked
    /\ BareArgument
    /\ \A c \in {"cpu", "motherboard", "memory"} :
          c \in DOMAIN arg.v => arg.v[c].t = "dict"
    /\ res.t = "ok"
    /\ ~FailedInside

\* C9: a compatibility check adds the vendor issue exactly when the CPU name
\* mentions intel and the motherboard socket amd, or the reverse, in any letter
\* case, and does so whatever the socket rule found.
C9_VendorCrossCheck ==
    (RanRules
        /\ ArgField("cpu", "name").t \in {"str", "absent"}
        /\ ArgField("motherboard", "socket").t \in {"str", "absent"})
    => CountKind(res.v, {"brand"}) =
          (IF VendorsCrossed(TextOf(ArgField("cpu", "name")),
                             TextOf(ArgField("motherboard", "socket")))
           THEN 1 ELSE 0)

\* the memory type is found in the support, in any letter case: in the one
\* string, or in some entry of the list
Supported(memory_type, support) ==
    IF support.t = "str" THEN Contains(upper(support.v), upper(memory_type.v))
    ELSE \E i \in DOMAIN support.v : Contains(upper(support.v[i].v), upper(memory_type.v))

\* a support given as a string or as a list of strings, and not empty
GivenSupport(support) ==
    \/ Given(support)
    \/ /\ support.t = "list"
       /\ support.v # <<>>
       /\ \A i \in DOMAIN support.v : support.v[i].t = "str"

\* C10: with the memory type and the motherboard's memory_support both given, a
\* compatibility check adds a memory issue exactly when the type is in no
\* letter case a substring of the support string, or of any entry of the
\* support list; with neither a type nor a name of the memory, or neither a
\* support nor a name of the motherboard, it adds none.
C10_MemorySupport ==
    RanRules =>
        LET memory_type == ArgField("memory", "type")
            support == ArgField("motherboard", "memory_support")
            count == CountKind(res.v, {"memory", "memory_list"})
        IN  /\ (Given(memory_type) /\ GivenSupport(support)) =>
                  count = (IF Supported(memory_type, support) THEN 0 ELSE 1)
            /\ \/ Missing(memory_type) /\ ArgField("memory", "name") = Absent
               \/ Missing(support) /\ ArgField("motherboard", "name") = Absent
               => count = 0

\* the memory generation a lower-cased name mentions: ddr5 before ddr4 before
\* ddr3, the empty text when none
NamedGeneration(name) ==
    IF Contains(lower(name), <<"d", "d", "r", "5">>) THEN <<"D", "D", "R", "5">>
    ELSE IF Contains(lower(name), <<"d", "d", "r", "4">>) THEN <<"D", "D", "R", "4">>
    ELSE IF Contains(lower(name), <<"d", "d", "r", "3">>) THEN <<"D", "D", "R", "3">>
    ELSE <<>>

\* the memory generation a motherboard's lower-cased name stands for, the empty
\* text when it matches no entry
BoardGeneration(name) ==
    LET n == lower(name)
    IN  IF \E w \in {<<"b", "6", "5", "0">>, <<"x", "6", "7", "0">>, <<"a", "m", "5">>} : Contains(n, w) THEN <<"D", "D", "R", "5">>
        ELSE IF \E w \in {<<"b", "4", "5", "0">>, <<"x", "4", "7", "0">>, <<"b", "5", "5", "0">>, <<"x", "5", "7", "0">>} : Contains(n, w) THEN <<"D", "D", "R", "4">>
        ELSE IF \E w \in {<<"z", "8", "7">>, <<"h", "8", "1">>, <<"b", "8", "5">>} : Contains(n, w) THEN <<"D", "D", "R", "3">>
        ELSE <<>>

\* the memory type the rule is to work with: the one given, else the one the
\* memory's name mentions
ResolvedType ==
    IF Given(ArgField("memory", "type")) THEN ArgField("memory", "type")
    ELSE PyStr(NamedGeneration(TextOf(ArgField("memory", "name"))))

\* the support the rule is to work with: the one given, else the one the
\* motherboard's name stands for
ResolvedSupport ==
    IF ~Missing(ArgField("motherboard", "memory_support"))
    THEN ArgField("motherboard", "memory_support")
    ELSE PyStr(BoardGeneration(TextOf(ArgField("motherboard", "name"))))

\* the fields the memory rule reads are texts (or a list of texts) or absent
MemoryFieldsWellTyped ==
    /\ ArgField("memory", "type").t \in {"str", "absent"}
    /\ ArgField("memory", "name").t \in {"str", "absent"}
    /\ ArgField("motherboard", "name").t \in {"str", "absent"}
    /\ \/ Missing(ArgField("motherboard", "memory_support"))
       \/ GivenSupport(ArgField("motherboard", "memory_support"))

\* C11: a compatibility check infers an absent memory type from the memory's
\* name (ddr5, then ddr4, then ddr3) and an absent memory_support from the
\* motherboard's name (b650/x670/am5: DDR5, else b450/x470/b550/x570: DDR4, else
\* z87/h81/b85: DDR3), and applies the memory rule to the inferred values as to
\* given ones: one memory issue exactly when both are resolved and the type is
\* not supported, none when the board's name matches no entry.
C11_MemoryInference ==
    (RanRules /\ MemoryFieldsWellTyped
        /\ (Missing(ArgField("memory", "type"))
            \/ Missing(ArgField("motherboard", "memory_support"))))
    => CountKind(res.v, {"memory", "memory_list"}) =
          (IF /\ ResolvedType.v # <<>>
              /\ ResolvedSupport.v # <<>>
              /\ ~Supported(ResolvedType, ResolvedSupport)
           THEN 1 ELSE 0)

\* a wattage or rating field as a number, an absent one as 0
NumberOf(value) == IF value.t = "int" THEN value.v ELSE 0

\* the draw the power rule estimates: the CPU's tdp and that of the graphics
\* card under "video-card"
Draw == NumberOf(ArgField("cpu", "tdp")) + NumberOf(ArgField("video-card", "tdp"))

\* the power warnings of a result
PowerWarnings(result) == SelectSeq(result.warnings, LAMBDA w : w.kind = "power")

\* the argument without its power supply
WithoutSupply == PyDict([k \in DOMAIN arg.v \ {"power-supply"} |-> arg.v[k]])

\* the configurator's check ran to its end on wattages and a rating that are
\* numbers or absent, the graphics card given under "video-card" if at all
PowerChecked ==
    /\ CheckedByConfigurator
    /\ arg.t = "dict"
    /\ res.t = "ok"
    /\ ~IsExc(check_compatibility_try(arg))
    /\ "video_card" \notin DOMAIN arg.v
    /\ \A f \in {<<"cpu", "tdp">>, <<"video-card", "tdp">>, <<"power-supply", "power">>} :
          ArgField(f[1], f[2]).t \in {"int", "absent"}

\* C12: check_compatibility adds exactly one power warning, and no power issue,
\* exactly when the power supply's rating is over 0 and the draw (CPU tdp plus
\* GPU tdp, an absent one counted as 0) is strictly over 80% of the rating; the
\* warning recommends floor(draw / 0.8) watts, and compatible is what it is
\* without the power supply.
C12_PowerWarning ==
    PowerChecked =>
        LET rating == NumberOf(ArgField("power-supply", "power"))
            over == rating > 0 /\ 10 * Draw > 8 * rating
        IN  /\ PowerWarnings(res.v) =
                  (IF over THEN << [kind |-> "power", total |-> Draw,
                                    recommended |-> (10 * Draw) \div 8] >>
                   ELSE <<>>)
            /\ CountKind(res.v, {"power"}) = 0
            /\ res.v.compatible = check_compatibility(WithoutSupply).v.compatible
            /\ res.v.issues = check_compatibility(WithoutSupply).v.issues

\* C12 witness: 125 W and 300 W on a 500 W supply: a warning that recommends
\* 531 W, on a compatible configuration
C12_Witness ==
    /\ PowerChecked
    /\ Draw = 425
    /\ ArgField("power-supply", "power") = PyInt(500)
    /\ res.v.warnings = << [kind |-> "power", total |-> 425, recommended |-> 531] >>
    /\ res.v.compatible

\* the entries of a component of the argument, none when it is not given
EntriesOf(component) ==
    IF component \in DOMAIN arg.v /\ arg.v[component].t = "dict"
    THEN arg.v[component].v ELSE <<>>

\* the argument with the CPU's and the graphics card's tdp replaced
WithTdp(c, g) ==
    PyDict(("cpu" :> PyDict(("tdp" :> PyInt(c)) @@ EntriesOf("cpu")))
           @@ ("video-card" :> PyDict(("tdp" :> PyInt(g)) @@ EntriesOf("video-card")))
           @@ arg.v)

\* the wattages a tdp is raised to
RaisedWattages == {0, 65, 100, 125, 300, 400}

\* C13: for a fixed rating of the power supply, when check_compatibility gives
\* the power warning for the tdp values (c, g), it gives it for every (c', g')
\* with c' >= c and g' >= g; and no result carries more than one power warning.
C13_PowerWarningMonotone ==
    PowerChecked =>
        /\ Len(PowerWarnings(res.v)) <= 1
        /\ Len(PowerWarnings(res.v)) = 1 =>
              \A c \in RaisedWattages, g \in RaisedWattages :
                 (c >= NumberOf(ArgField("cpu", "tdp"))
                     /\ g >= NumberOf(ArgField("video-card", "tdp")))
                 => Len(PowerWarnings(check_compatibility(WithTdp(c, g)).v)) = 1

\* C13 witness: a 300 W graphics card alone on a 300 W supply is warned about,
\* and so is every raised pair
C13_Witness ==
    /\ PowerChecked
    /\ ArgField("cpu", "tdp") = Absent
    /\ ArgField("video-card", "tdp") = PyInt(300)
    /\ ArgField("power-supply", "power") = PyInt(300)
    /\ Len(PowerWarnings(res.v)) = 1
    /\ Len(PowerWarnings(check_compatibility(WithTdp(65, 400)).v)) = 1

\* the fields whose texts the rules compare
ComparedFields ==
    { <<"cpu", "socket">>, <<"cpu", "name">>, <<"motherboard", "socket">>,
      <<"memory", "type">>, <<"motherboard", "memory_support">>,
      <<"case", "form_factor">>, <<"motherboard", "form_factor">> }

\* a text, or each text of a list, in capital letters; any other value as it is
Capitals(value) ==
    IF value.t = "str" THEN PyStr(upper(value.v))
    ELSE IF value.t = "list"
    THEN PyList([i \in DOMAIN value.v |->
                    IF value.v[i].t = "str" THEN PyStr(upper(value.v[i].v)) ELSE value.v[i]])
    ELSE value

\* the argument with every compared text in capital letters
InCapitals ==
    PyDict([c \in DOMAIN arg.v |->
               IF arg.v[c].t # "dict" THEN arg.v[c]
               ELSE PyDict([f \in DOMAIN arg.v[c].v |->
                               IF <<c, f>> \in ComparedFields THEN Capitals(arg.v[c].v[f])
                               ELSE arg.v[c].v[f]])])

\* the kinds of the issues of a result, in order
IssueKinds(result) == [i \in DOMAIN result.issues |-> result.issues[i].kind]

\* the check of the current call applied to another configuration
CheckAgain(configuration) ==
    IF op = "check_compatibility" THEN check_compatibility(configuration)
    ELSE check_compatibility_internal(configuration)

\* C14: changing only the letter case of the texts a rule compares (sockets, CPU
\* name, memory type, memory_support, form factors) never changes which rules
\* fire in a compatibility check: the configuration written in capital letters
\* gets the same compatible and issues of the same kinds.
C14_LetterCaseIrrelevant ==
    (Checked /\ arg.t = "dict" /\ res.t = "ok") =>
        /\ CheckAgain(InCapitals).v.compatible = res.v.compatible
        /\ IssueKinds(CheckAgain(InCapitals).v) = IssueKinds(res.v)

\* the argument with the bare text of a component replaced by the record that
\* holds it as its name
NamedComponent(component) ==
    PyDict((component :> PyDict([name |-> arg.v[component]])) @@ arg.v)

\* C15: a compatibility check returns the same result for a configuration given
\* directly and for the same configuration under the key "configuration" of a
\* wrapper object, and the same result for a component given as a bare text s
\* and as the record {name: s}.
C15_ShapesAgree ==
    (Checked /\ BareArgument /\ res.t = "ok") =>
        /\ CheckAgain(Wrapped(arg)) = res
        /\ \A c \in DOMAIN arg.v :
              arg.v[c].t = "str" => CheckAgain(NamedComponent(c)) = res


EstimateOperations == {"estimate_performance", "server_estimate_performance"}

\* a performance estimate has returned
Estimated == pc = "done" /\ op \in EstimateOperations

\* the configuration the current check or estimate was given
GivenConfiguration == IF op \in EstimateOperations THEN arg.configuration ELSE arg

\* the operation of the current call applied to another configuration, with
\* the same scenarios
CallAgain(configuration) ==
    CASE op = "estimate_performance" ->
            estimate_performance(configuration, arg.scenarios)
      [] op = "server_estimate_performance" ->
            estimate_performance_tool(configuration, arg.flat, arg.scenarios)
      [] OTHER -> CheckAgain(configuration)

GpuSpellings == {"video-card", "video_card"}

\* the configuration with its video card under the other spelling of the key
OtherSpelling(configuration) ==
    PyDict([k \in { IF c \in GpuSpellings THEN CHOOSE o \in GpuSpellings : o # c ELSE c :
                       c \in DOMAIN configuration.v } |->
               IF k \in GpuSpellings
               THEN configuration.v[CHOOSE o \in GpuSpellings : o # k]
               ELSE configuration.v[k]])

\* the given configuration holds a video card under exactly one spelling
OneSpelling ==
    /\ GivenConfiguration.t = "dict"
    /\ Cardinality(GpuSpellings \cap DOMAIN GivenConfiguration.v) = 1

\* C16: a video card supplied under the key video_card and the same video card
\* supplied under the key video-card give identical results from
\* check_compatibility and identical results from estimate_performance.
C16_SpellingsAgree ==
    ((Checked \/ Estimated) /\ OneSpelling) =>
        CallAgain(OtherSpelling(GivenConfiguration)) = res

\* the numeric attributes of the components
NumericFields ==
    {"cores", "core_count", "memory_channels", "capacity", "frequency", "max_memory",
     "max_memory_frequency", "vram", "base_clock", "boost_clock", "core_clock", "tdp",
     "power", "length", "max_gpu_length"}

IsNumber(value) == value.t \in {"int", "float", "tenths"}

\* the number a text stands for, Absent when it stands for none
ParsedNumber(text) ==
    LET parsed == float_of(text)
    IN  IF IsExc(parsed) THEN Absent
        ELSE IF parsed.v[2] = 1 THEN PyInt(parsed.v[1])
        ELSE IF 10 % parsed.v[2] = 0 THEN PyTenths(parsed.v[1] * (10 \div parsed.v[2]))
        ELSE Absent

\* the configuration with every numeric attribute that is a text replaced by
\* the number it stands for, and left out when it stands for none
Parsed(configuration) ==
    LET kept(component) ==
            { f \in DOMAIN component.v :
                 ~(/\ f \in NumericFields
                   /\ component.v[f].t = "str"
                   /\ ParsedNumber(component.v[f].v) = Absent) }
    IN  PyDict([c \in DOMAIN configuration.v |->
                   PyDict([f \in kept(configuration.v[c]) |->
                              IF f \in NumericFields /\ configuration.v[c].v[f].t = "str"
                              THEN ParsedNumber(configuration.v[c].v[f].v)
                              ELSE configuration.v[c].v[f]])])

\* the given configuration is an object of component records whose numeric
\* attributes are numbers or texts
NumbersOrTexts ==
    /\ GivenConfiguration.t = "dict"
    /\ "configuration" \notin DOMAIN GivenConfiguration.v
    /\ \A c \in DOMAIN GivenConfiguration.v :
          /\ GivenConfiguration.v[c].t = "dict"
          /\ \A f \in DOMAIN GivenConfiguration.v[c].v \cap NumericFields :
                IsNumber(GivenConfiguration.v[c].v[f]) \/ GivenConfiguration.v[c].v[f].t = "str"

\* one of the numeric attributes of the given configuration is a text
SomeNumericText ==
    \E c \in DOMAIN GivenConfiguration.v :
       \E f \in DOMAIN GivenConfiguration.v[c].v \cap NumericFields :
          GivenConfiguration.v[c].v[f].t = "str"

\* an outcome is an error result: that of the except clause or of an early
\* return
ErrorResult(outcome) ==
    IF "performance_scores" \in DOMAIN outcome.v THEN "error" \in DOMAIN outcome.v
    ELSE \E i \in DOMAIN outcome.v.issues :
            outcome.v.issues[i].kind \in {"error", "unparsable", "empty", "not_a_dict"}

\* C17: in check_compatibility and estimate_performance a numeric attribute
\* given as a text is parsed to a number, and an unparsable text or a missing
\* attribute is replaced by its default: when the configuration with the texts
\* already parsed, and the unparsable ones left out, gives no error result, the
\* configuration as given gives that same result.
C17_NumericTextsParsed ==
    ((Checked \/ Estimated) /\ res.t = "ok" /\ NumbersOrTexts /\ SomeNumericText
       /\ ~ErrorResult(CallAgain(Parsed(GivenConfiguration))))
    => res = CallAgain(Parsed(GivenConfiguration))

\* C18: for every configuration, zero and negative numeric attributes included,
\* and every scenario list, each score stored in performance_scores by a
\* performance estimate is an integer from 0 to 100.
C18_ScoresInRange ==
    (Estimated /\ res.t = "ok") =>
        \A name \in DOMAIN res.v.performance_scores :
           res.v.performance_scores[name].score \in 0..100

\* the names of the six scenarios
RecognizedNames == { scenario_table[i].name : i \in DOMAIN scenario_table }

\* the recognized names among the scenarios asked for: the elements of the list
\* given, all six when the argument is omitted, none when it is no list
RequestedNames ==
    IF arg.scenarios = PyNone THEN RecognizedNames
    ELSE IF arg.scenarios.t # "list" THEN {}
    ELSE { n \in RecognizedNames :
              \E j \in DOMAIN arg.scenarios.v : arg.scenarios.v[j] = PyStr(<<n>>) }

\* the sum of the stored scores of a result
StoredTotal(result) ==
    SumOver([name \in DOMAIN result.performance_scores |->
                result.performance_scores[name].score],
            DOMAIN result.performance_scores)

\* the estimate of the current call with another scenarios argument
EstimateWith(scenarios) ==
    IF op = "estimate_performance" THEN estimate_performance(arg.configuration, scenarios)
    ELSE estimate_performance_tool(arg.configuration, arg.flat, scenarios)

\* C19: a performance estimate sets overall_rating to the floor of the mean of
\* the stored scores whenever at least one entry is produced; when none is
\* produced, the list of scenarios being empty or holding only unrecognized
\* names, it returns an empty result, with empty performance_scores and no
\* error, instead of failing with a division by zero (for a configuration
\* whose estimate with the default scenarios has no error).
C19_OverallRating ==
    Estimated =>
        /\ res.t = "ok"
        /\ LET count == Cardinality(DOMAIN res.v.performance_scores)
           IN  count > 0 =>
                  /\ count * res.v.overall_rating <= StoredTotal(res.v)
                  /\ StoredTotal(res.v) < count * (res.v.overall_rating + 1)
        /\ (/\ arg.scenarios.t = "list"
            /\ RequestedNames = {}
            /\ "error" \notin DOMAIN EstimateWith(PyNone).v) =>
              /\ DOMAIN res.v.performance_scores = {}
              /\ "error" \notin DOMAIN res.v

\* an element of a scenario list is one of the six names
IsRecognized(scenario) == \E n \in RecognizedNames : scenario = PyStr(<<n>>)

GivenComponent(key) ==
    IF GivenConfiguration.t = "dict" /\ key \in DOMAIN GivenConfiguration.v
    THEN GivenConfiguration.v[key]
    ELSE EmptyDict

\* a component record whose numeric attributes are numbers and whose other
\* attributes are texts
PlainComponent(component) ==
    /\ component.t = "dict"
    /\ \A f \in DOMAIN component.v :
          IF f \in NumericFields \cup {"memory"} THEN IsNumber(component.v[f])
          ELSE component.v[f].t = "str"

\* a performance estimate has returned scores for a configuration given
\* directly
Scored ==
    /\ Estimated
    /\ res.t = "ok"
    /\ "error" \notin DOMAIN res.v
    /\ GivenConfiguration.t = "dict"
    /\ "configuration" \notin DOMAIN GivenConfiguration.v

\* the cpu_score the implementation of the current call computes
ComputedCpuScore ==
    IF op = "estimate_performance" THEN cc_cpu_score(GivenComponent("cpu"))
    ELSE sc_cpu_score(sc_wrap(GivenComponent("cpu")))

\* cores x ((base_clock + boost_clock) / 2) x 10 x the microarchitecture factor,
\* the number of cores read from the attribute named
StatedCpuScore(cpu, cores) ==
    LET base_clock == GetD(cpu, "base_clock", PyFloat(3))
    IN  RMul(RMul(RMul(number_of(GetD(cpu, cores, PyInt(4))).v,
                       RMul(RAdd(number_of(base_clock).v,
                                 number_of(GetD(cpu, "boost_clock", base_clock)).v),
                            Rat(1, 2))),
                  Rat(10, 1)),
             multiplier_of(GetD(cpu, "microarchitecture", EmptyStr), microarchitectures).v)

\* C21: a performance estimate computes cpu_score = cores x ((base_clock +
\* boost_clock) / 2) x 10 from the CPU's cores (default 4), base_clock (default
\* 3.0) and boost_clock (default base_clock), times the microarchitecture
\* factor: 1.2 for Zen or Skylake, else 0.9 for Piledriver or Ivy Bridge, else
\* 0.7 for K10 or Core, else 1.0.
C21_CpuScore ==
    (Scored /\ PlainComponent(GivenComponent("cpu"))) =>
        ComputedCpuScore = Ok(StatedCpuScore(GivenComponent("cpu"), "cores"))

\* the video card under the key the implementation of the current call reads
ReadCard ==
    GivenComponent(IF op = "estimate_performance" THEN "video-card" ELSE "video_card")

\* the gpu_score the implementation of the current call computes
ComputedGpuScore ==
    IF op = "estimate_performance" THEN cc_gpu_score(ReadCard)
    ELSE sc_gpu_score(sc_wrap(ReadCard))

\* the chipset-tier factor, in tenths: that of the first tier in the order of
\* the claim one of whose marks the chipset contains
StatedTier(chipset) ==
    LET has(mark) == Contains(chipset, mark)
    IN  IF has(<<"R", "T", "X", " ", "4", "0">>) THEN 15
        ELSE IF has(<<"R", "T", "X", " ", "3", "0">>) \/ has(<<"R", "X", " ", "7">>) THEN 13
        ELSE IF has(<<"R", "T", "X", " ", "2", "0">>) \/ has(<<"R", "X", " ", "6">>) THEN 11
        ELSE IF has(<<"G", "T", "X", " ", "1", "0">>) \/ has(<<"R", "X", " ", "5">>) THEN 8
        ELSE IF has(<<"G", "T", "X", " ", "9">>) \/ has(<<"R", "9">>) THEN 6
        ELSE 10

\* (vram / 6) x ((core_clock + boost_clock) / 2 / 1000) x 200 x the tier factor
StatedGpuScore(card) ==
    LET core_clock == GetD(card, "core_clock", PyInt(1500))
        vram == GetD(card, "vram", GetD(card, "memory", PyInt(6)))
    IN  RMul(Rat(number_of(vram).v[1]
                    * (number_of(core_clock).v[1]
                       + number_of(GetD(card, "boost_clock", core_clock)).v[1])
                    * StatedTier(GetD(card, "chipset", EmptyStr).v),
                 number_of(vram).v[2] * 600),
             Rat(1, 1))

\* C22: a performance estimate computes gpu_score = (vram / 6) x ((core_clock +
\* boost_clock) / 2 / 1000) x 200 from the video card's vram (or memory,
\* default 6), core_clock (default 1500) and boost_clock (default core_clock),
\* times the chipset-tier factor: 1.5 for RTX 40, else 1.3 for RTX 30 or RX 7,
\* else 1.1 for RTX 20 or RX 6, else 0.8 for GTX 10 or RX 5, else 0.6 for GTX 9
\* or R9, else 1.0.
C22_GpuScore ==
    (Scored /\ PlainComponent(ReadCard)
       /\ \A f \in {"core_clock", "boost_clock"} \cap DOMAIN ReadCard.v :
             ReadCard.v[f].t = "int") =>
        ComputedGpuScore = Ok(StatedGpuScore(ReadCard))

\* the score tools
ScoreOperations == {"get_compatibility_score", "get_compatibility_score_by_json"}

\* a call of a score tool has returned
ScoreReturned == pc = "done" /\ op \in ScoreOperations /\ res.t = "ok"

\* the result of the matching check tool for a configuration: check_compatibility
\* for get_compatibility_score, check_compatibility_by_json for the other
CheckOf(configuration) ==
    IF op = "get_compatibility_score" THEN check_compatibility_internal(configuration).v
    ELSE check_compatibility_by_json(configuration).v

\* max(0, 100 - 10 x number of warnings) when compatible, 0 otherwise
StatedScore(details) ==
    IF ~details.compatible THEN 0
    ELSE IF 100 - 10 * Len(details.warnings) > 0 THEN 100 - 10 * Len(details.warnings)
    ELSE 0

\* the score and the details of the current result are those stated for the
\* check of this configuration
ScoreIsOf(configuration) ==
    /\ res.v.details = CheckOf(configuration)
    /\ res.v.compatibility_score = StatedScore(res.v.details)
    /\ res.v.compatibility_score \in 0..100

\* C23 as stated: the details are the check's result for the configuration the
\* call was given, the score is max(0, 100 - 10 x number of warnings) when
\* that result is compatible and 0 otherwise, an integer in 0..100.
C23_ScoreOfGivenConfiguration ==
    ScoreReturned => ScoreIsOf(arg.configuration)

\* the configuration get_compatibility_score checks when it is given None: the
\* non-empty component names, each as {"name": ...} under its key
NamedComponents ==
    LET names == [cpu |-> arg.flat.cpu, motherboard |-> arg.flat.motherboard,
                  memory |-> arg.flat.memory, video_card |-> arg.flat.gpu]
        given == { k \in DOMAIN names : Truthy(names[k]) }
    IN  PyDict([k \in given |-> PyDict([name |-> names[k]])])

\* C23: the details of a score are the check's result for the configuration
\* given, or for the one made of the component names when
\* get_compatibility_score is given no configuration (None); the score is
\* max(0, 100 - 10 x number of warnings) when that result is compatible and 0
\* otherwise, an integer in 0..100.
C23_Score ==
    ScoreReturned =>
        ScoreIsOf(IF op = "get_compatibility_score" /\ arg.configuration = PyNone
                  THEN NamedComponents ELSE arg.configuration)

\* a score of 90: a compatible configuration with one warning
C23_Witness ==
    /\ ScoreReturned
    /\ res.v.details.compatible
    /\ Len(res.v.details.warnings) = 1
    /\ res.v.compatibility_score = 90

\* a call of generate_computer_configuration has returned a configuration
Generated ==
    /\ pc = "done" /\ op = "generate_computer_configuration"
    /\ res.t = "ok" /\ res.v.t = "dict" /\ "configuration" \in DOMAIN res.v.v

\* the components of the configuration returned, by key
GeneratedComponents == res.v.v["configuration"].v

\* the link type stated for a key
StatedLinkType(key) ==
    CASE key = "cpu"         -> "cpu"
      [] key = "motherboard" -> "motherboard"
      [] key = "memory"      -> "memory"
      [] key = "video_card"  -> "video-card"
      [] OTHER               -> "generic"

\* the component holds the link generated from its name with the link type
\* stated for its key
HasStatedLink(key) ==
    LET component == GeneratedComponents[key]
    IN  /\ component.t = "dict"
        /\ {"name", "link"} \subseteq DOMAIN component.v
        /\ Ok(component.v["link"])
             = generate_taobao_link(component.v["name"], StatedLinkType(key))

\* C24 as stated: every component of a generated configuration holds a link,
\* generated with link type cpu, motherboard, memory, video-card for the keys
\* cpu, motherboard, memory, video_card and with a generic link type for any
\* other key.
C24_EveryComponentLinked ==
    Generated => \A key \in DOMAIN GeneratedComponents : HasStatedLink(key)

\* the configuration the draft or the fallback template gave, empty when it
\* holds none
DraftComponents == GetD(llm.v, "configuration", EmptyDict).v

\* the link type of a key that is none of the four: the key itself, which is
\* generic unless it spells a link type
KeyLinkType(key) ==
    IF key \in {"cpu", "motherboard", "memory", "video-card"} THEN key
    ELSE StatedLinkType(key)

\* C24: a generated configuration has the keys of the draft; every component
\* that is a dictionary with a name holds the link generated from that name,
\* with link type cpu, motherboard, memory, video-card for the keys cpu,
\* motherboard, memory, video_card and with the key itself as link type for any
\* other key; every other component is the draft's, with no link added.
C24_NamedComponentsLinked ==
    Generated =>
        /\ DOMAIN GeneratedComponents = DOMAIN DraftComponents
        /\ \A key \in DOMAIN GeneratedComponents :
              IF DraftComponents[key].t = "dict" /\ "name" \in DOMAIN DraftComponents[key].v
              THEN /\ Ok(GeneratedComponents[key].v["link"])
                        = generate_taobao_link(DraftComponents[key].v["name"],
                                               KeyLinkType(key))
                   /\ \A f \in DOMAIN DraftComponents[key].v \ {"link"} :
                         GeneratedComponents[key].v[f] = DraftComponents[key].v[f]
                   /\ DOMAIN GeneratedComponents[key].v
                        = DOMAIN DraftComponents[key].v \cup {"link"}
              ELSE GeneratedComponents[key] = DraftComponents[key]

\* a draft of the oracle generated with links: a named component under a key
\* that is none of the four, and a component with no name
C24_Witness ==
    /\ Generated
    /\ fallbacks = 0
    /\ "link" \in DOMAIN GeneratedComponents["case"].v
    /\ "link" \in DOMAIN GeneratedComponents["cpu"].v
    /\ "link" \notin DOMAIN GeneratedComponents["storage"].v

\* the calls of the three operations that take a configuration, in either
\* implementation
TakesConfiguration ==
    op \in {"check_compatibility", "server_check_compatibility"} \cup EstimateOperations

\* the result of the current generate call made first, with the same value
\* returned by the query
GenerateFirst ==
    IF budget_error(arg.budget) # NoOutcome THEN budget_error(arg.budget)
    ELSE finish_configuration(llm.v, arg.usage, arg.config_level)

\* no component of the configuration holds a link
NoLinks(configuration) ==
    \A key \in DOMAIN configuration.v :
       configuration.v[key].t = "dict" => "link" \notin DOMAIN configuration.v[key].v

SocketsChecked ==
    /\ CheckedByConfigurator /\ res.t = "ok"
    /\ Given(ArgField("cpu", "socket")) /\ Given(ArgField("motherboard", "socket"))
    /\ ~IsExc(check_compatibility_try(arg))

\* the lower-cased sockets of the configuration checked
CpuSocketLower == lower(ArgField("cpu", "socket").v)
BoardSocketLower == lower(ArgField("motherboard", "socket").v)

\* the result holds the socket issue
SocketIssue == CountKind(res.v, {"socket"}) = 1

\* some family whose key the CPU socket starts with (or equals) has the
\* motherboard socket in its set
KeyMatch ==
    \E i \in FamiliesOf(CpuSocketLower) :
       InSeq(BoardSocketLower, compatibility_rules[i].sockets)

\* C26 as stated: with both sockets given, the socket issue is there exactly
\* when no family whose key the lower-cased CPU socket starts with or equals
\* has the lower-cased motherboard socket in its set and the sockets differ; a
\* CPU socket that is a chipset label (B450 with motherboard X570) gets the
\* issue.
C26_IssueUnlessKeyMatch ==
    SocketsChecked =>
        /\ CountKind(res.v, {"socket"}) <= 1
        /\ SocketIssue <=> (~KeyMatch /\ CpuSocketLower # BoardSocketLower)

\* some family whose key the CPU socket starts with, or whose set holds the
\* CPU socket, has the motherboard socket in its set
FamilyMatch ==
    \E i \in DOMAIN compatibility_rules :
       /\ \/ i \in FamiliesOf(CpuSocketLower)
          \/ InSeq(CpuSocketLower, compatibility_rules[i].sockets)
       /\ InSeq(BoardSocketLower, compatibility_rules[i].sockets)

\* C26: with both sockets given, the socket issue is there exactly when no
\* family whose key the lower-cased CPU socket starts with, or whose set
\* holds the lower-cased CPU socket, has the lower-cased motherboard socket
\* in its set and the lower-cased sockets differ; a CPU socket that is a
\* chipset label of the motherboard's family (B450 with X570) gets no issue.
C26_IssueUnlessFamilyMatch ==
    SocketsChecked =>
        /\ CountKind(res.v, {"socket"}) <= 1
        /\ SocketIssue <=> (~FamilyMatch /\ CpuSocketLower # BoardSocketLower)

\* CPU socket B450 on an X570 motherboard, found compatible
C26_Witness ==
    /\ SocketsChecked
    /\ ArgField("cpu", "socket") = PyStr(<<"B", "4", "5", "0">>)
    /\ ArgField("motherboard", "socket") = PyStr(<<"X", "5", "7", "0">>)
    /\ ArgField("cpu", "name") = Absent
    /\ CountKind(res.v, {"socket"}) = 0
    /\ res.v.compatible

\* the configurator's check ran all its rules on fields of the types the rules
\* are stated for
AllRulesRan ==
    /\ PowerChecked /\ RanRules /\ MemoryFieldsWellTyped
    /\ \A f \in {<<"cpu", "socket">>, <<"cpu", "name">>, <<"motherboard", "socket">>,
                 <<"case", "form_factor">>, <<"motherboard", "form_factor">>} :
          ArgField(f[1], f[2]).t \in {"str", "absent"}
    /\ \A f \in {<<"case", "max_gpu_length">>, <<"video-card", "length">>} :
          ArgField(f[1], f[2]).t \in {"int", "absent"}

\* the rank of a form-factor label in Mini ITX < Micro ATX < ATX < EATX < XL ATX,
\* 0 for any other text
StatedRank(label) ==
    CASE label = <<"M", "i", "n", "i", " ", "I", "T", "X">>  -> 1
      [] label = <<"M", "i", "c", "r", "o", " ", "A", "T", "X">> -> 2
      [] label = <<"A", "T", "X">>       -> 3
      [] label = <<"E", "A", "T", "X">>      -> 4
      [] label = <<"X", "L", " ", "A", "T", "X">>    -> 5
      [] OTHER                -> 0

\* whether the configuration checked violates the blocking rule of a kind, each
\* rule taken alone
Violates(kind) ==
    CASE kind = "socket" ->
            /\ Given(ArgField("cpu", "socket")) /\ Given(ArgField("motherboard", "socket"))
            /\ ~FamilyMatch
            /\ CpuSocketLower # BoardSocketLower
      [] kind = "brand" ->
            VendorsCrossed(TextOf(ArgField("cpu", "name")),
                           TextOf(ArgField("motherboard", "socket")))
      [] kind = "memory" ->
            /\ ResolvedType.v # <<>>
            /\ ResolvedSupport.v # <<>>
            /\ ~Supported(ResolvedType, ResolvedSupport)
      [] kind = "form_factor" ->
            LET case_rank == StatedRank(TextOf(ArgField("case", "form_factor")))
                board_rank == StatedRank(TextOf(ArgField("motherboard", "form_factor")))
            IN  case_rank > 0 /\ board_rank > 0 /\ case_rank < board_rank
      [] kind = "gpu_length" ->
            /\ NumberOf(ArgField("case", "max_gpu_length")) > 0
            /\ NumberOf(ArgField("video-card", "length")) > 0
            /\ NumberOf(ArgField("video-card", "length"))
                 > NumberOf(ArgField("case", "max_gpu_length"))

\* the blocking rules in the order of the check
RuleOrder == <<"socket", "brand", "memory", "form_factor", "gpu_length">>

\* the rule an issue belongs to
RuleOf(issue) == IF issue.kind = "memory_list" THEN "memory" ELSE issue.kind

\* the draw is over 80% of a rating that is over 0
PowerOver ==
    /\ NumberOf(ArgField("power-supply", "power")) > 0
    /\ 10 * Draw > 8 * NumberOf(ArgField("power-supply", "power"))

\* C27: check_compatibility evaluates every rule whatever the earlier rules
\* found: its issues are one issue for each blocking rule violated, in the
\* order socket, vendor, memory generation, form factor (case rank smaller than
\* board rank), GPU length (over the case's max_gpu_length, both positive),
\* and the power warning is there exactly when the draw is over 80% of the
\* rating, with issues or without.
C27_AllRulesInOrder ==
    AllRulesRan =>
        /\ [i \in DOMAIN res.v.issues |-> RuleOf(res.v.issues[i])]
             = SelectSeq(RuleOrder, LAMBDA kind : Violates(kind))
        /\ Len(PowerWarnings(res.v)) = (IF PowerOver THEN 1 ELSE 0)
        /\ res.v.warnings = PowerWarnings(res.v)

\* a configuration that violates the five blocking rules and draws too much:
\* five issues in the order of the rules, and the power warning
C27_Witness ==
    /\ AllRulesRan
    /\ [i \in DOMAIN res.v.issues |-> res.v.issues[i].kind] = RuleOrder
    /\ Len(res.v.warnings) = 1
    /\ ~res.v.compatible

\* the configuration a call of the server's check or score tool was given
ServerConfiguration ==
    IF op = "get_compatibility_score" THEN arg.configuration ELSE arg

\* the result of the server's check in the current call
ServerResult == IF op = "get_compatibility_score" THEN res.v.details ELSE res.v

\* a field of a component of that configuration, Absent when it is not there
ServerField(component, field) ==
    IF /\ component \in DOMAIN ServerConfiguration.v
       /\ field \in DOMAIN ServerConfiguration.v[component].v
    THEN ServerConfiguration.v[component].v[field]
    ELSE Absent

\* the server's check ran its rules to the end, on a configuration given as
\* an object whose memory and motherboard are objects
ServerRulesRan ==
    /\ pc = "done" /\ op \in {"server_check_compatibility", "get_compatibility_score"}
    /\ res.t = "ok"
    /\ ServerConfiguration.t = "dict"
    /\ "configuration" \notin DOMAIN ServerConfiguration.v
    /\ \A c \in {"cpu", "motherboard", "memory"} \cap DOMAIN ServerConfiguration.v :
          ServerConfiguration.v[c].t = "dict"
    /\ ~IsExc(sc_rules(ServerConfiguration))
    /\ \A f \in {<<"memory", "capacity">>, <<"motherboard", "max_memory">>} :
          ServerField(f[1], f[2]).t \in {"int", "str", "absent"}

\* the number a capacity field stands for: the number itself, the number a
\* text spells, the default for an absent field or a text that spells none
StatedAmount(value, default) ==
    IF value.t = "int" THEN value.v
    ELSE IF value.t = "str" /\ ~IsExc(int_of(value.v)) THEN int_of(value.v).v
    ELSE default

\* twice the memory capacity is over the motherboard's max_memory
OverCapacity ==
    2 * StatedAmount(ServerField("memory", "capacity"), 8)
       > StatedAmount(ServerField("motherboard", "max_memory"), 128)

\* C28: the server's check reports one capacity issue exactly when twice the
\* memory capacity (default 8) is over the motherboard's max_memory (default
\* 128); the configuration is then incompatible and get_compatibility_score
\* gives it the score 0.
C28_CapacityIssue ==
    ServerRulesRan =>
        /\ CountKind(ServerResult, {"capacity"}) = (IF OverCapacity THEN 1 ELSE 0)
        /\ OverCapacity =>
              /\ ~ServerResult.compatible
              /\ op = "get_compatibility_score" => res.v.compatibility_score = 0

\* one module of 64 on a motherboard whose max_memory is 64, with nothing else
\* wrong: the capacity issue alone, and the score 0
C28_Witness ==
    /\ ServerRulesRan
    /\ op = "get_compatibility_score"
    /\ ServerField("memory", "capacity") = PyInt(64)
    /\ ServerField("motherboard", "max_memory") = PyInt(64)
    /\ Len(ServerResult.issues) = 1
    /\ CountKind(ServerResult, {"capacity"}) = 1
    /\ res.v.compatibility_score = 0

\* the delta of the first choice of a chunk that is a JSON object with a
\* non-empty choices list of objects; Absent for any other chunk
FirstDelta(chunk) ==
    IF /\ chunk.t = "dict" /\ "choices" \in DOMAIN chunk.v
       /\ chunk.v["choices"].t = "list" /\ chunk.v["choices"].v # <<>>
       /\ chunk.v["choices"].v[1].t = "dict"
    THEN GetD(chunk.v["choices"].v[1], "delta", EmptyDict)
    ELSE Absent

\* what a line of the stream is stated to add to the content: the content
\* string of its delta; nothing for a line that does not start with "data:",
\* for empty data, for [DONE], for data that is no JSON, for an object with
\* no choices or an empty choices list, and for a delta whose content is
\* missing or null; NoOutcome for a line of which nothing is stated
StatedPiece(l) ==
    IF ~l.data \/ l.kind \in {"empty", "done", "text"} THEN Ok(<<>>)
    ELSE IF /\ l.chunk.t = "dict"
            /\ \/ "choices" \notin DOMAIN l.chunk.v
               \/ l.chunk.v["choices"] = PyList(<<>>)
    THEN Ok(<<>>)
    ELSE IF FirstDelta(l.chunk).t # "dict" THEN NoOutcome
    ELSE IF "content" \notin DOMAIN FirstDelta(l.chunk).v THEN Ok(<<>>)
    ELSE IF FirstDelta(l.chunk).v["content"] = PyNone THEN Ok(<<>>)
    ELSE IF FirstDelta(l.chunk).v["content"].t = "str"
    THEN Ok(FirstDelta(l.chunk).v["content"].v)
    ELSE NoOutcome

\* C29: each line the loop reads from the stream leaves the content followed by
\* the content string of the line's delta, when the line is a data line that
\* parses as a JSON object with a non-empty choices list, and leaves the
\* content as it is when the line does not start with "data:", has empty
\* data, is [DONE], is no JSON, or has a missing or null content; in each of
\* these cases the loop goes on and no fallback is built.
C29_StreamAccumulates ==
    [][(pc = "stream" /\ nlines' = nlines + 1 /\ StatedPiece(line_read') # NoOutcome) =>
          /\ content' = content \o StatedPiece(line_read').v
          /\ pc' = "stream"
          /\ fallbacks' = fallbacks
          /\ failure' = failure
          /\ llm' = llm]_vars

\* a content string has arrived, then a second one, appended after it
C29_Witness ==
    /\ pc = "stream"
    /\ nlines = 2
    /\ line_read = [data |-> TRUE, kind |-> "json",
                    chunk |-> ChunkOf(PyDict([content |-> PyStr(<<"good 2/2">>)]))]
    /\ content = <<"good 1/2", "good 2/2">>

\* C30: both compatibility checks find each fallback template compatible, with
\* no issue and no warning, as get_mock_configuration builds it and with the
\* links generate_computer_configuration adds; get_compatibility_score gives
\* it 100, and a generate call that returns a fallback reports one of these
\* configurations with compatibility_score 100.0.
C30_FallbacksCompatible ==
    /\ (Checked /\ arg \in FallbackConfigurations) => res = Ok(cc_result(<<>>, <<>>))
    /\ (ScoreReturned /\ op = "get_compatibility_score"
          /\ arg.configuration \in FallbackConfigurations) =>
          res.v = [compatibility_score |-> 100, details |-> cc_result(<<>>, <<>>)]
    /\ (FellBack /\ pc = "done") =>
          /\ res.t = "ok"
          /\ res.v.v["configuration"] \in FallbackConfigurations
          /\ res.v.v["compatibility_score"] = PyFloat(100)

\* the score 100 of the high template as a generate call returns it
C30_Witness ==
    /\ ScoreReturned /\ op = "get_compatibility_score"
    /\ arg.configuration = with_links(high_template).v
    /\ res.v.compatibility_score = 100
=============================================================================
